---- MODULE Spec2Model ----
(***************************************************************************)
(* gofield: struct field accessor.  Model of the shape analyser            *)
(* (StructType.traversalFields), the shape cache (Accessor.dict guarded by *)
(* Accessor.rw) and the lazy per-instance materialiser (FieldType.init,    *)
(* derefPtrAndInit).                                                       *)
(***************************************************************************)
EXTENDS Integers, Sequences, FiniteSets, TLC

VARIABLES
    opts,      \* the Accessor's configuration: maxDeep, iterator, groupBy
    dict,      \* Accessor.dict: runtime type id -> *StructType
    rw,        \* Accessor.rw: the readers holding RLock and the writer holding Lock
    heap,      \* every StructType object built so far, by object address
    calls,     \* per caller: the call in progress (its position and locals)
    mem,       \* the memory cells of the bound instance and of what was allocated
    structs,   \* the Struct accessors created, in order of creation
    ret        \* the last accessor operation and what it returned

vars == <<opts, dict, rw, heap, calls, mem, structs, ret>>

(***************************************************************************)
(* Bounds of the model.                                                    *)
(***************************************************************************)
MaxDeepBound == 3      \* WithMaxDeep is drawn from 1..MaxDeepBound
MaxCalls == 3          \* length of a sequential history of factory calls
MaxOps == 2            \* accessor operations performed on the bound instance
MaxPrealloc == 1       \* pointers the caller sets before the instance is bound

(***************************************************************************)
(* Program constants.                                                      *)
(***************************************************************************)
rootID == -1
DefaultMaxDeep == 16

Take == 0
Hide == 1
SkipOffspring == 2
Skip == 3
TakeAndStop == 4
HideAndStop == 5
SkipOffspringAndStop == 6
SkipAndStop == 7

IterPolicy == Take..SkipAndStop

(***************************************************************************)
(* Record types given to the analyser.  A declared type is the sequence of *)
(* its constructors: <<"ptr", "ptr", "int">> is **int, <<"P3">> is the     *)
(* struct P3.  P1, P2, P3 are the types of the repository's benchmark; Q   *)
(* has two composite siblings and N refers to itself.                      *)
(***************************************************************************)
Fld(name, type) == [Name |-> name, Type |-> type]

StructDef ==
    [ P1   |-> << Fld("A", <<"int">>), Fld("b", <<"int">>), Fld("P2", <<"P2">>) >>,
      P2   |-> << Fld("C", <<"int">>), Fld("d", <<"int">>), Fld("P3", <<"ptr", "P3">>) >>,
      P3   |-> << Fld("E", <<"int">>), Fld("f", <<"ptr", "int">>),
                  Fld("g", <<"ptr", "ptr", "int">>) >>,
      Q    |-> << Fld("L", <<"Leaf">>), Fld("R", <<"ptr", "Leaf">>), Fld("k", <<"int">>) >>,
      Leaf |-> << Fld("x", <<"int">>), Fld("y", <<"ptr", "int">>) >>,
      N    |-> << Fld("v", <<"int">>), Fld("next", <<"ptr", "N">>) >> ]

StructNames == DOMAIN StructDef

\* reflect.Type.Kind
Kind(t) ==
    IF Head(t) = "ptr" THEN "ptr"
    ELSE IF Head(t) \in StructNames THEN "struct"
    ELSE "int"

\* reflect.Type.Elem of a pointer type
Elem(t) == Tail(t)

RECURSIVE Size(_)
\* the number of memory cells a value of type t occupies
Size(t) ==
    IF Kind(t) = "struct"
    THEN LET def == StructDef[Head(t)]
             sum[i \in 0..Len(def)] == IF i = 0 THEN 0 ELSE sum[i - 1] + Size(def[i].Type)
         IN sum[Len(def)]
    ELSE 1

\* reflect.StructField.Offset of member i (1-based) of struct type name
OffsetOf(name, i) ==
    LET def == StructDef[name]
        sum[j \in 0..Len(def)] == IF j = 0 THEN 0 ELSE sum[j - 1] + Size(def[j].Type)
    IN sum[i - 1]

\* reflect.Type.NumField
NumField(name) == Len(StructDef[name])

\* reflect.Type.Field(i), i counted from 1
StructField(name, i) ==
    [Name |-> StructDef[name][i].Name, Type |-> StructDef[name][i].Type,
     Offset |-> OffsetOf(name, i), Index |-> i]

RECURSIVE StripPtr(_, _)
\* the loop "for elemTyp.Kind() == reflect.Ptr": the element type and the pointer count
StripPtr(t, n) ==
    IF Kind(t) = "ptr" THEN StripPtr(Elem(t), n + 1) ELSE [elemTyp |-> t, ptrNum |-> n]

joinFieldName(parentPath, name) == parentPath \o <<".", name>>

(***************************************************************************)
(* The iterator and the classifier are user functions of a field.  An      *)
(* iterator is modelled by the table of the selectors it answers with      *)
(* something other than the default; on == FALSE is the nil function.      *)
(***************************************************************************)
NoFn == [on |-> FALSE, tab |-> <<>>]

IteratorCall(iterator, field) ==
    IF field.selector \in DOMAIN iterator.tab THEN iterator.tab[field.selector] ELSE Take

\* the classifier: "kind" groups every field by its underlying kind,
\* "ptr" groups the pointer fields under "ptr" and reports no group for the rest
GroupByCall(groupBy, field) ==
    IF groupBy.tab = <<"kind">>
    THEN [group |-> Kind(field.elemTyp), ok |-> TRUE]
    ELSE [group |-> "ptr", ok |-> field.ptrNum > 0]

(***************************************************************************)
(* StructType analysis.                                                    *)
(* A *FieldType is the position (from 0) that the object has in s.fields,  *)
(* or TreeRef for StructType.tree; a field object that the iterator        *)
(* excluded is referenced by nothing and is only seen in log.              *)
(***************************************************************************)
TreeRef == -1

\* *p for a *FieldType p
FieldAt(s, p) == IF p = TreeRef THEN s.tree ELSE s.fields[p + 1]

\* parent.children = append(parent.children, field); s.fields = append(s.fields, field)
AppendField(s, parent, field) ==
    LET withChild ==
            IF parent = TreeRef
            THEN [s EXCEPT !.tree.children = Append(@, Len(s.fields))]
            ELSE [s EXCEPT !.fields[parent + 1].children = Append(@, Len(s.fields))]
    IN [withChild EXCEPT !.fields = Append(@, field)]

\* NewField with the id taken from a count of the members met, not of those kept
NewField_CountsSeen(s, parent, f) ==
    [ parent   |-> parent,
      id       |-> Len(s.log),
      selector |-> joinFieldName(FieldAt(s, parent).selector, f.Name),
      deep     |-> s.depth,
      ptrNum   |-> StripPtr(f.Type, 0).ptrNum,
      elemTyp  |-> StripPtr(f.Type, 0).elemTyp,
      children |-> <<>>,
      Name     |-> f.Name,
      Type     |-> f.Type,
      Offset   |-> f.Offset,
      Index    |-> f.Index ]

\* field := &FieldType{...} for the member f of parent's struct type
NewField(s, parent, f) ==
    [ parent   |-> parent,
      id       |-> Len(s.fields),
      selector |-> joinFieldName(FieldAt(s, parent).selector, f.Name),
      deep     |-> s.depth,
      ptrNum   |-> StripPtr(f.Type, 0).ptrNum,
      elemTyp  |-> StripPtr(f.Type, 0).elemTyp,
      children |-> <<>>,
      Name     |-> f.Name,
      Type     |-> f.Type,
      Offset   |-> f.Offset,
      Index    |-> f.Index ]

\* Switch with SkipOffspring queueing the member for expansion like Take
Switch_SkipOffspringExpands(p, s, parent, field, q) ==
    CASE p = SkipOffspringAndStop ->
            [s |-> AppendField(s, parent, field), q |-> q, stop |-> TRUE]
      [] p = Skip ->
            [s |-> s, q |-> q, stop |-> FALSE]
      [] p = SkipAndStop ->
            [s |-> s, q |-> q, stop |-> TRUE]
      [] OTHER ->
            [s |-> AppendField(s, parent, field),
             q |-> IF Kind(field.elemTyp) = "struct" THEN Append(q, Len(s.fields)) ELSE q,
             stop |-> p = TakeAndStop]

\* Switch with TakeAndStop going on to the next member like Take
Switch_TakeAndStopGoesOn(p, s, parent, field, q) ==
    CASE p \in {SkipOffspring, SkipOffspringAndStop} ->
            [s |-> AppendField(s, parent, field), q |-> q,
             stop |-> p = SkipOffspringAndStop]
      [] p = Skip ->
            [s |-> s, q |-> q, stop |-> FALSE]
      [] p = SkipAndStop ->
            [s |-> s, q |-> q, stop |-> TRUE]
      [] OTHER ->
            [s |-> AppendField(s, parent, field),
             q |-> IF Kind(field.elemTyp) = "struct" THEN Append(q, Len(s.fields)) ELSE q,
             stop |-> FALSE]

\* the switch on the policy p the iterator returned for field; q is structFields
\* and stop tells whether the loop is left (break L)
Switch(p, s, parent, field, q) ==
    CASE p \in {SkipOffspring, SkipOffspringAndStop} ->
            [s |-> AppendField(s, parent, field), q |-> q,
             stop |-> p = SkipOffspringAndStop]
      [] p = Skip ->
            [s |-> s, q |-> q, stop |-> FALSE]
      [] p = SkipAndStop ->
            [s |-> s, q |-> q, stop |-> TRUE]
      [] OTHER ->
            [s |-> AppendField(s, parent, field),
             q |-> IF Kind(field.elemTyp) = "struct" THEN Append(q, Len(s.fields)) ELSE q,
             stop |-> p = TakeAndStop]

\* one pass of the loop L, for member i of parent's struct type
LevelStep(s, iterator, parent, i, q) ==
    CHOOSE r \in
        { IF iterator.on
          THEN Switch(IteratorCall(iterator, field),
                      [s EXCEPT !.log = Append(@, field)], parent, field, q)
          ELSE [s |-> AppendField(s, parent, field),
                q |-> IF Kind(field.elemTyp) = "struct" THEN Append(q, Len(s.fields)) ELSE q,
                stop |-> FALSE] :
          field \in {NewField(s, parent, StructField(Head(FieldAt(s, parent).elemTyp), i))} } :
        TRUE

RECURSIVE LevelLoop(_, _, _, _, _)
\* for i := 0; i < numField; i++ (members are counted from 1 here)
LevelLoop(s, iterator, parent, i, q) ==
    IF i > NumField(Head(FieldAt(s, parent).elemTyp)) THEN [s |-> s, q |-> q]
    ELSE CHOOSE r \in { IF x.stop THEN [s |-> x.s, q |-> x.q]
                        ELSE LevelLoop(x.s, iterator, parent, i + 1, x.q) :
                        x \in {LevelStep(s, iterator, parent, i, q)} } : TRUE

RECURSIVE traversalFields(_, _, _, _)
RECURSIVE ExpandLoop(_, _, _, _, _)

RECURSIVE ExpandLoop_Reverse(_, _, _, _, _)
\* ExpandLoop going through structFields from its last element to its first
ExpandLoop_Reverse(s, maxFieldDeep, iterator, q, k) ==
    IF k > Len(q) THEN s
    ELSE CHOOSE r \in { ExpandLoop_Reverse(x, maxFieldDeep, iterator, q, k + 1) :
                        x \in {traversalFields(s, maxFieldDeep, iterator,
                                                q[Len(q) + 1 - k])} } : TRUE

\* for _, field := range structFields { s.traversalFields(maxFieldDeep, iterator, field) }
ExpandLoop(s, maxFieldDeep, iterator, q, k) ==
    IF k > Len(q) THEN s
    ELSE CHOOSE r \in { ExpandLoop(x, maxFieldDeep, iterator, q, k + 1) :
                        x \in {traversalFields(s, maxFieldDeep, iterator, q[k])} } : TRUE

\* traversalFields that stops only when the depth is above the ceiling
traversalFields_OneMore(s, maxFieldDeep, iterator, parent) ==
    IF s.depth > maxFieldDeep THEN s
    ELSE CHOOSE r \in { ExpandLoop(lv.s, maxFieldDeep, iterator, lv.q, 1) :
                        lv \in {LevelLoop([s EXCEPT !.depth = @ + 1,
                                                    !.expanded = Append(@, parent)],
                                          iterator, parent, 1, <<>>)} } : TRUE

traversalFields(s, maxFieldDeep, iterator, parent) ==
    IF s.depth >= maxFieldDeep THEN s
    ELSE CHOOSE r \in { ExpandLoop(lv.s, maxFieldDeep, iterator, lv.q, 1) :
                        lv \in {LevelLoop([s EXCEPT !.depth = @ + 1,
                                                    !.expanded = Append(@, parent)],
                                          iterator, parent, 1, <<>>)} } : TRUE

\* groupBy putting each field in front of its bucket instead of behind it
GroupStep_Prepends(fields, fn, k, fieldGroup) ==
    LET r == GroupByCall(fn, fields[k])
        a == IF r.group \in DOMAIN fieldGroup THEN fieldGroup[r.group] ELSE <<>>
    IN IF r.ok
       THEN [g \in DOMAIN fieldGroup \cup {r.group} |->
                IF g = r.group THEN <<k - 1>> \o a ELSE fieldGroup[g]]
       ELSE fieldGroup

\* one pass of the loop of groupBy, for the field at position k of s.fields
GroupStep(fields, fn, k, fieldGroup) ==
    LET r == GroupByCall(fn, fields[k])
        a == IF r.group \in DOMAIN fieldGroup THEN fieldGroup[r.group] ELSE <<>>
    IN IF r.ok
       THEN [g \in DOMAIN fieldGroup \cup {r.group} |->
                IF g = r.group THEN Append(a, k - 1) ELSE fieldGroup[g]]
       ELSE fieldGroup

RECURSIVE GroupLoop(_, _, _, _)
GroupLoop(fields, fn, k, fieldGroup) ==
    IF k > Len(fields) THEN fieldGroup
    ELSE CHOOSE r \in { GroupLoop(fields, fn, k + 1, x) :
                        x \in {GroupStep(fields, fn, k, fieldGroup)} } : TRUE

groupBy(s, fn) == [s EXCEPT !.fieldGroup = GroupLoop(s.fields, fn, 1, <<>>)]

\* newStructType with the root sentinel put into the flat list
newStructType_RootListed(o, tid, structPtr) ==
    LET structTyp == Head(StripPtr(structPtr.typ, 0).elemTyp)
        root == [ parent |-> TreeRef, id |-> rootID, selector |-> <<>>, deep |-> 0,
                  ptrNum |-> 0, elemTyp |-> <<structTyp>>, children |-> <<>>,
                  Name |-> "", Type |-> <<structTyp>>, Offset |-> 0, Index |-> 0 ]
        sTyp == [ tid        |-> tid,
                  fields     |-> <<root>>,
                  fieldGroup |-> <<>>,
                  depth      |-> 0,
                  tree       |-> [id |-> rootID, elemTyp |-> <<structTyp>>,
                                  selector |-> <<>>, children |-> <<>>],
                  log        |-> <<>>,
                  expanded   |-> <<>> ]
    IN CHOOSE r \in { IF o.groupBy.on THEN groupBy(t, o.groupBy) ELSE t :
                       t \in {traversalFields(sTyp, o.maxDeep, o.iterator, TreeRef)} } : TRUE

\* structPtr is the argument [typ, ptr]; ameda.DereferencePtrValue strips its
\* pointers.  log (the fields handed to the iterator, in order) and expanded (the
\* parents whose members were enumerated, in order) record what the analysis did.
newStructType(o, tid, structPtr) ==
    LET structTyp == Head(StripPtr(structPtr.typ, 0).elemTyp)
        sTyp == [ tid        |-> tid,
                  fields     |-> <<>>,
                  fieldGroup |-> <<>>,
                  depth      |-> 0,
                  tree       |-> [id |-> rootID, elemTyp |-> <<structTyp>>,
                                  selector |-> <<>>, children |-> <<>>],
                  log        |-> <<>>,
                  expanded   |-> <<>> ]
    IN CHOOSE r \in { IF o.groupBy.on THEN groupBy(t, o.groupBy) ELSE t :
                       t \in {traversalFields(sTyp, o.maxDeep, o.iterator, TreeRef)} } : TRUE

(***************************************************************************)
(* Shape queries.                                                          *)
(***************************************************************************)
Nil == 0    \* the nil pointer, and the nil *StructType, *FieldType and *Struct

checkID(s, id) == id >= 0 /\ id < Len(s.fields)

\* StructType.NumField
NumFields(s) == Len(s.fields)

\* the nil *FieldType
NilField == [nil |-> TRUE]

\* StructType.FieldType: the field's descriptor, or nil
FieldType(s, id) == IF ~checkID(s, id) THEN NilField ELSE s.fields[id + 1]

\* StructType.GroupTypes: a missing key (and a nil map) yields the nil slice
GroupTypes(s, group) ==
    IF group \in DOMAIN s.fieldGroup THEN s.fieldGroup[group] ELSE <<>>

(***************************************************************************)
(* Memory.  mem[a] is the content of cell a: an int, or a pointer (Nil or  *)
(* the address of a cell).  A pointer value (reflect.Value of kind Ptr) is *)
(* [ptr, at, typ]: what it points to, the cell it is stored in (0 when it  *)
(* is not addressable) and its type.  A view (an addressable reflect.Value)*)
(* is [addr, typ].                                                         *)
(***************************************************************************)
zero == [addr |-> 0, typ |-> <<>>]

ZeroValue == [elemVal |-> zero, elemPtr |-> 0]

\* reflect.NewAt(typ, p): a *typ pointing to p
NewAt(typ, p) == [ptr |-> p, at |-> 0, typ |-> <<"ptr">> \o typ]

IsNil(v) == v.ptr = Nil

\* v.Elem() of a non-nil pointer v whose element is itself a pointer
ElemPtr(v, m) == [ptr |-> m[v.ptr], at |-> v.ptr, typ |-> Elem(v.typ)]

\* v.Elem() as a view of the pointee
ElemView(v) == [addr |-> v.ptr, typ |-> Elem(v.typ)]

\* a Set that allocates the target and leaves the cell the pointer lives in nil
SetNew_Detached(v, m) ==
    [v |-> [v EXCEPT !.ptr = Len(m) + 1], m |-> m \o [i \in 1..Size(Elem(v.typ)) |-> 0]]

\* v.Set(reflect.New(v.Type().Elem())): a zeroed target is allocated at the end
\* of memory and its address is stored in the cell v lives in
SetNew(v, m) ==
    LET a == Len(m) + 1
        grown == m \o [i \in 1..Size(Elem(v.typ)) |-> 0]
    IN [v |-> [v EXCEPT !.ptr = a], m |-> [grown EXCEPT ![v.at] = a]]

RECURSIVE derefPtrAndInit_NoLast(_, _, _)
\* derefPtrAndInit without the allocation after the loop
derefPtrAndInit_NoLast(v, numPtr, m) ==
    IF numPtr > 0
    THEN CHOOSE r \in { derefPtrAndInit_NoLast(ElemPtr(a.v, a.m), numPtr - 1, a.m) :
                        a \in {IF IsNil(v) THEN SetNew(v, m) ELSE [v |-> v, m |-> m]} } : TRUE
    ELSE [v |-> v, m |-> m]

RECURSIVE derefPtrAndInit_Always(_, _, _)
\* derefPtrAndInit that sets every pointer it passes, nil or not
derefPtrAndInit_Always(v, numPtr, m) ==
    IF numPtr > 0
    THEN CHOOSE r \in { derefPtrAndInit_Always(ElemPtr(a.v, a.m), numPtr - 1, a.m) :
                        a \in {IF v.at # 0 THEN SetNew(v, m) ELSE [v |-> v, m |-> m]} } : TRUE
    ELSE SetNew(v, m)

RECURSIVE derefPtrAndInit(_, _, _)
\* the loop allocates the nil pointers it passes, the test after it the last one
derefPtrAndInit(v, numPtr, m) ==
    IF numPtr > 0
    THEN CHOOSE r \in { derefPtrAndInit(ElemPtr(a.v, a.m), numPtr - 1, a.m) :
                        a \in {IF IsNil(v) THEN SetNew(v, m) ELSE [v |-> v, m |-> m]} } : TRUE
    ELSE IF IsNil(v) THEN SetNew(v, m) ELSE [v |-> v, m |-> m]

(***************************************************************************)
(* The Struct accessor: [typ, value, fieldValues]; typ is the address of   *)
(* its StructType in heap.  The operations return the accessor and the     *)
(* memory as they leave them.                                              *)
(***************************************************************************)
newStruct(typ, elemPtr, h) ==
    [ typ         |-> typ,
      value       |-> [elemVal |-> zero, elemPtr |-> elemPtr],
      fieldValues |-> [i \in 1..Len(h[typ].fields) |-> ZeroValue] ]

\* initFrom that caches the value one slot below the slot of the field's id
initFrom_SlotBelow(fld, p) ==
    LET ptr == p.v.elemPtr + fld.Offset
        valPtr == NewAt(fld.Type, ptr)
    IN CHOOSE r \in { [v |-> [elemVal |-> ElemView(d.v), elemPtr |-> d.v.ptr],
                       s |-> [p.s EXCEPT !.fieldValues[fld.id] =
                                 [elemVal |-> ElemView(d.v), elemPtr |-> d.v.ptr]],
                       m |-> d.m] :
                      d \in {IF fld.ptrNum > 0
                             THEN derefPtrAndInit(valPtr, fld.ptrNum, p.m)
                             ELSE [v |-> valPtr, m |-> p.m]} } : TRUE

\* the part of init after pVal := f.parent.init(s); p is what that call left
initFrom(fld, p) ==
    LET ptr == p.v.elemPtr + fld.Offset
        valPtr == NewAt(fld.Type, ptr)
    IN CHOOSE r \in { [v |-> [elemVal |-> ElemView(d.v), elemPtr |-> d.v.ptr],
                       s |-> [p.s EXCEPT !.fieldValues[fld.id + 1] =
                                 [elemVal |-> ElemView(d.v), elemPtr |-> d.v.ptr]],
                       m |-> d.m] :
                      d \in {IF fld.ptrNum > 0
                             THEN derefPtrAndInit(valPtr, fld.ptrNum, p.m)
                             ELSE [v |-> valPtr, m |-> p.m]} } : TRUE

RECURSIVE init(_, _, _, _)
\* f.init(s); shape is *s.StructType, f a *FieldType (StructType.tree is the only
\* FieldType whose parent is nil)
init(shape, f, s, m) ==
    IF f = TreeRef THEN [v |-> s.value, s |-> s, m |-> m]
    ELSE IF s.fieldValues[FieldAt(shape, f).id + 1].elemPtr > 0
         THEN [v |-> s.fieldValues[FieldAt(shape, f).id + 1], s |-> s, m |-> m]
         ELSE CHOOSE r \in { initFrom(FieldAt(shape, f), p) :
                             p \in {init(shape, FieldAt(shape, f).parent, s, m)} } : TRUE

\* FieldValue that counts an id outside the range round the field list
FieldValue_Wraps(shape, s, id, m) ==
    LET w == id % Len(shape.fields)
        v == s.fieldValues[w + 1]
    IN IF v.elemPtr > 0 THEN [val |-> v.elemVal, s |-> s, m |-> m]
       ELSE LET r == init(shape, w, s, m)
            IN [val |-> r.v.elemVal, s |-> r.s, m |-> r.m]

\* Struct.FieldValue
FieldValue(shape, s, id, m) ==
    IF ~checkID(shape, id) THEN [val |-> zero, s |-> s, m |-> m]
    ELSE LET v == s.fieldValues[id + 1]
         IN IF v.elemPtr > 0 THEN [val |-> v.elemVal, s |-> s, m |-> m]
            ELSE LET r == init(shape, id, s, m)
                 IN [val |-> r.v.elemVal, s |-> r.s, m |-> r.m]

\* Struct.Field
Field(shape, s, id, m) ==
    IF ~checkID(shape, id) THEN [typ |-> NilField, val |-> zero, s |-> s, m |-> m]
    ELSE LET t == shape.fields[id + 1]
             v == s.fieldValues[id + 1]
         IN IF v.elemPtr > 0 THEN [typ |-> t, val |-> v.elemVal, s |-> s, m |-> m]
            ELSE LET r == init(shape, id, s, m)
                 IN [typ |-> t, val |-> r.v.elemVal, s |-> r.s, m |-> r.m]

\* the value of the field t, cached under id, for a loop of Range or GroupValues:
\* the cached one, or t.init(s)
valueOf(shape, s, id, t, m) ==
    IF s.fieldValues[id + 1].elemPtr > 0
    THEN [v |-> s.fieldValues[id + 1], s |-> s, m |-> m]
    ELSE init(shape, t, s, m)

RECURSIVE RangeLoop_NoStop(_, _, _, _, _, _)
\* Struct.Range going on after the callback returned false
RangeLoop_NoStop(shape, s, m, id, stop, seen) ==
    IF id >= Len(shape.fields) THEN [seen |-> seen, s |-> s, m |-> m]
    ELSE CHOOSE x \in { RangeLoop_NoStop(shape, r.s, r.m, id + 1, stop,
                                          Append(seen, [id |-> id, val |-> r.v.elemVal])) :
                        r \in {valueOf(shape, s, id, id, m)} } : TRUE

RECURSIVE RangeLoop(_, _, _, _, _, _)
\* Struct.Range with a callback that returns false at field id stop (and true
\* everywhere when stop is no id); seen are the (id, view) pairs handed to it
RangeLoop(shape, s, m, id, stop, seen) ==
    IF id >= Len(shape.fields) THEN [seen |-> seen, s |-> s, m |-> m]
    ELSE CHOOSE x \in { IF id = stop
                        THEN [seen |-> Append(seen, [id |-> id, val |-> r.v.elemVal]),
                              s |-> r.s, m |-> r.m]
                        ELSE RangeLoop(shape, r.s, r.m, id + 1, stop,
                                       Append(seen, [id |-> id, val |-> r.v.elemVal])) :
                        r \in {valueOf(shape, s, id, id, m)} } : TRUE

Range(shape, s, stop, m) == RangeLoop(shape, s, m, 0, stop, <<>>)

RECURSIVE GroupValuesLoop(_, _, _, _, _, _)
GroupValuesLoop(shape, s, m, a, i, r) ==
    IF i > Len(a) THEN [vals |-> r, s |-> s, m |-> m]
    ELSE CHOOSE y \in { GroupValuesLoop(shape, x.s, x.m, a, i + 1, Append(r, x.v.elemVal)) :
                        x \in {valueOf(shape, s, FieldAt(shape, a[i]).id, a[i], m)} } : TRUE

\* Struct.GroupValues
GroupValues(shape, s, group, m) ==
    GroupValuesLoop(shape, s, m, GroupTypes(shape, group), 1, <<>>)

(***************************************************************************)
(* Arguments of the factory calls.  The memory holds one instance of each  *)
(* root type, one after the other from address 1.                          *)
(***************************************************************************)
RootTypes == <<"P1", "Q", "N">>

Base(T) ==
    LET k == CHOOSE i \in 1..Len(RootTypes) : RootTypes[i] = T
        sum[j \in 0..Len(RootTypes)] ==
            IF j = 0 THEN 0 ELSE sum[j - 1] + Size(<<RootTypes[j]>>)
    IN 1 + sum[k - 1]

InitMem ==
    LET sum[j \in 0..Len(RootTypes)] ==
            IF j = 0 THEN 0 ELSE sum[j - 1] + Size(<<RootTypes[j]>>)
    IN [a \in 1..sum[Len(RootTypes)] |-> 0]

\* &T{}
StructPtr(T) == [typ |-> <<"ptr", T>>, ptr |-> Base(T)]

ValidArgs == {StructPtr(RootTypes[i]) : i \in 1..Len(RootTypes)}

\* a struct passed by value, a pointer to an int, an int, a pointer to a struct pointer
IllegalArgs ==
    { [typ |-> <<"P1">>, ptr |-> Nil],
      [typ |-> <<"ptr", "int">>, ptr |-> Base("P1")],
      [typ |-> <<"int">>, ptr |-> Nil],
      [typ |-> <<"ptr", "ptr", "P1">>, ptr |-> Nil] }

Args == ValidArgs \cup IllegalArgs

NoErr == "nil"
errTypeMismatch == "type mismatch"
errIllegalType == "type is not struct pointer"

\* the runtime type id: one number per type
RuntimeTypeID(typ) ==
    IF typ = <<"P1">> THEN 1
    ELSE IF typ = <<"int">> THEN 2
       ELSE IF typ = <<"ptr", "int">> THEN 3
       ELSE IF typ = <<"ptr", "ptr", "P1">> THEN 4
       ELSE 4 + (CHOOSE i \in 1..Len(RootTypes) : <<"ptr", RootTypes[i]>> = typ)

parseStructInfo(structPtr) ==
    [tid |-> RuntimeTypeID(structPtr.typ), ptr |-> structPtr.ptr]

parseStructInfoWithCheck(structPtr) ==
    IF Kind(structPtr.typ) = "ptr" /\ Kind(Elem(structPtr.typ)) = "struct"
    THEN [tid |-> RuntimeTypeID(structPtr.typ), ptr |-> structPtr.ptr, err |-> NoErr]
    ELSE [tid |-> 0, ptr |-> Nil, err |-> errIllegalType]

(***************************************************************************)
(* The shape cache.  A *StructType is the index of the object in heap.     *)
(***************************************************************************)
\* the body of Accessor.load between RLock and RUnlock
load(d, tid) ==
    IF tid \in DOMAIN d THEN [sTyp |-> d[tid], ok |-> TRUE] ELSE [sTyp |-> Nil, ok |-> FALSE]

\* a store that leaves the map as it was
store_Drops(d, h, sTyp) == d

\* the body of Accessor.store between Lock and Unlock
store(d, h, sTyp) ==
    [x \in DOMAIN d \cup {h[sTyp].tid} |-> IF x = h[sTyp].tid THEN sTyp ELSE d[x]]

\* an analyze that never looks into the cache: it builds and stores on every call
loadOrBuild_Rebuilds(o, d, h, tid, structPtr) ==
    CHOOSE r \in { [sTyp |-> Len(h) + 1, dict |-> store(d, Append(h, sTyp), Len(h) + 1),
                    heap |-> Append(h, sTyp)] :
                   sTyp \in {newStructType(o, tid, structPtr)} } : TRUE

\* load, and on a miss newStructType and store: the shape, the cache and the heap
loadOrBuild(o, d, h, tid, structPtr) ==
    IF ~load(d, tid).ok
    THEN CHOOSE r \in { [sTyp |-> Len(h) + 1, dict |-> store(d, Append(h, sTyp), Len(h) + 1),
                         heap |-> Append(h, sTyp)] :
                        sTyp \in {newStructType(o, tid, structPtr)} } : TRUE
    ELSE [sTyp |-> load(d, tid).sTyp, dict |-> d, heap |-> h]

Result(sTyp, struct, err) == [sTyp |-> sTyp, struct |-> struct, err |-> err]

NoResult == Result(Nil, Nil, NoErr)

\* a caller between calls: it has made n of the max calls it makes.  settled is,
\* for a call that began when no call was in progress and the cache already held
\* its type, the shape the cache held then.
Idle ==
    [pc |-> "idle", op |-> "none", arg |-> [typ |-> <<"int">>, ptr |-> Nil], recv |-> Nil,
     tid |-> 0, ptr |-> Nil, sTyp |-> Nil, ok |-> FALSE, res |-> NoResult, n |-> 0,
     max |-> MaxCalls, settled |-> Nil]

Threads == DOMAIN calls

NoRet == [op |-> "none"]

unlocked == [readers |-> {}, writer |-> {}]

(***************************************************************************)
(* The calls of a sequential caller: each handler runs from call to return *)
(* with nothing in between.                                                *)
(***************************************************************************)
Invoke(t, op, arg, recv) ==
    /\ calls[t].pc = "idle"
    /\ calls[t].n < calls[t].max
    /\ calls' = [calls EXCEPT ![t] =
                    [Idle EXCEPT !.pc = "called", !.op = op, !.arg = arg, !.recv = recv,
                                 !.n = calls[t].n, !.max = calls[t].max,
                                 !.settled =
                                     IF /\ RuntimeTypeID(arg.typ) \in DOMAIN dict
                                        /\ \A u \in Threads : calls[u].pc = "idle"
                                     THEN dict[RuntimeTypeID(arg.typ)] ELSE Nil]]
    /\ UNCHANGED <<opts, dict, rw, heap, mem, structs, ret>>

Return(t, res) ==
    calls' = [calls EXCEPT ![t].pc = "idle", ![t].res = res, ![t].n = @ + 1]

\* Accessor.Analyze
Analyze(t) ==
    /\ calls[t].pc = "called" /\ calls[t].op = "Analyze"
    /\ rw = unlocked
    /\ \E p \in {parseStructInfoWithCheck(calls[t].arg)} :
          IF p.err # NoErr
          THEN /\ Return(t, Result(Nil, Nil, p.err))
               /\ UNCHANGED <<dict, heap>>
          ELSE \E a \in {loadOrBuild(opts, dict, heap, p.tid, calls[t].arg)} :
                  /\ dict' = a.dict
                  /\ heap' = a.heap
                  /\ Return(t, Result(a.sTyp, Nil, NoErr))
    /\ UNCHANGED <<opts, rw, mem, structs, ret>>

\* Accessor.Access
Access(t) ==
    /\ calls[t].pc = "called" /\ calls[t].op = "Access"
    /\ rw = unlocked
    /\ \E p \in {parseStructInfoWithCheck(calls[t].arg)} :
          IF p.err # NoErr
          THEN /\ Return(t, Result(Nil, Nil, p.err))
               /\ UNCHANGED <<dict, heap, structs>>
          ELSE \E a \in {loadOrBuild(opts, dict, heap, p.tid, calls[t].arg)} :
                  /\ dict' = a.dict
                  /\ heap' = a.heap
                  /\ structs' = Append(structs, newStruct(a.sTyp, p.ptr, a.heap))
                  /\ Return(t, Result(a.sTyp, Len(structs) + 1, NoErr))
    /\ UNCHANGED <<opts, rw, mem, ret>>

\* Accessor.MustAccess, called as its NOTE asks: with a struct pointer
MustAccess(t) ==
    /\ calls[t].pc = "called" /\ calls[t].op = "MustAccess"
    /\ rw = unlocked
    /\ \E p \in {parseStructInfo(calls[t].arg)} :
       \E a \in {loadOrBuild(opts, dict, heap, p.tid, calls[t].arg)} :
          /\ dict' = a.dict
          /\ heap' = a.heap
          /\ structs' = Append(structs, newStruct(a.sTyp, p.ptr, a.heap))
          /\ Return(t, Result(a.sTyp, Len(structs) + 1, NoErr))
    /\ UNCHANGED <<opts, rw, mem, ret>>

\* a StructType.Access that binds whatever it is given
StructTypeAccess_NoCheck(t) ==
    /\ calls[t].pc = "called" /\ calls[t].op = "StructType.Access"
    /\ \E p \in {parseStructInfo(calls[t].arg)}, s \in {calls[t].recv} :
          /\ structs' = Append(structs, newStruct(s, p.ptr, heap))
          /\ Return(t, Result(s, Len(structs) + 1, NoErr))
    /\ UNCHANGED <<opts, dict, rw, heap, mem, ret>>

\* StructType.Access on the shape calls[t].recv
StructTypeAccess(t) ==
    /\ calls[t].pc = "called" /\ calls[t].op = "StructType.Access"
    /\ \E p \in {parseStructInfo(calls[t].arg)}, s \in {calls[t].recv} :
          IF heap[s].tid # p.tid
          THEN /\ Return(t, Result(Nil, Nil, errTypeMismatch))
               /\ UNCHANGED structs
          ELSE /\ structs' = Append(structs, newStruct(s, p.ptr, heap))
               /\ Return(t, Result(s, Len(structs) + 1, NoErr))
    /\ UNCHANGED <<opts, dict, rw, heap, mem, ret>>

(***************************************************************************)
(* The same handlers step by step, for callers that run concurrently.      *)
(* Analyze, Access and MustAccess take the same steps: parse, load (RLock, *)
(* read, RUnlock), and on a miss newStructType and store (Lock, write,     *)
(* Unlock).                                                                *)
(***************************************************************************)
Goto(t, pc) == calls' = [calls EXCEPT ![t].pc = pc]

Parse(t) ==
    /\ calls[t].pc = "called" /\ calls[t].op \in {"Analyze", "Access", "MustAccess"}
    /\ IF calls[t].op = "MustAccess"
       THEN \E p \in {parseStructInfo(calls[t].arg)} :
               calls' = [calls EXCEPT ![t].pc = "RLock", ![t].tid = p.tid, ![t].ptr = p.ptr]
       ELSE \E p \in {parseStructInfoWithCheck(calls[t].arg)} :
               IF p.err # NoErr
               THEN Return(t, Result(Nil, Nil, p.err))
               ELSE calls' = [calls EXCEPT ![t].pc = "RLock", ![t].tid = p.tid,
                                           ![t].ptr = p.ptr]
    /\ UNCHANGED <<opts, dict, rw, heap, mem, structs, ret>>

\* a.rw.RLock()
RLock(t) ==
    /\ calls[t].pc = "RLock"
    /\ rw.writer = {}
    /\ rw' = [rw EXCEPT !.readers = @ \cup {t}]
    /\ Goto(t, "read")
    /\ UNCHANGED <<opts, dict, heap, mem, structs, ret>>

\* sTyp, ok := a.dict[tid]
Read(t) ==
    /\ calls[t].pc = "read"
    /\ calls' = [calls EXCEPT ![t].pc = "RUnlock",
                              ![t].sTyp = load(dict, calls[t].tid).sTyp,
                              ![t].ok = load(dict, calls[t].tid).ok]
    /\ UNCHANGED <<opts, dict, rw, heap, mem, structs, ret>>

\* a.rw.RUnlock(), and the branch on ok
RUnlock(t) ==
    /\ calls[t].pc = "RUnlock"
    /\ rw' = [rw EXCEPT !.readers = @ \ {t}]
    /\ Goto(t, IF calls[t].ok THEN "done" ELSE "build")
    /\ UNCHANGED <<opts, dict, heap, mem, structs, ret>>

\* sTyp = a.newStructType(tid, structPtr)
Build(t) ==
    /\ calls[t].pc = "build"
    /\ heap' = Append(heap, newStructType(opts, calls[t].tid, calls[t].arg))
    /\ calls' = [calls EXCEPT ![t].pc = "Lock", ![t].sTyp = Len(heap) + 1]
    /\ UNCHANGED <<opts, dict, rw, mem, structs, ret>>

\* a Lock that does not wait for the lock to be free
Lock_NoWait(t) ==
    /\ calls[t].pc = "Lock"
    /\ rw' = [rw EXCEPT !.writer = @ \cup {t}]
    /\ Goto(t, "write")
    /\ UNCHANGED <<opts, dict, heap, mem, structs, ret>>

\* a.rw.Lock()
Lock(t) ==
    /\ calls[t].pc = "Lock"
    /\ rw = unlocked
    /\ rw' = [rw EXCEPT !.writer = {t}]
    /\ Goto(t, "write")
    /\ UNCHANGED <<opts, dict, heap, mem, structs, ret>>

\* a.dict[sTyp.tid] = sTyp
Store(t) ==
    /\ calls[t].pc = "write"
    /\ dict' = store(dict, heap, calls[t].sTyp)
    /\ Goto(t, "Unlock")
    /\ UNCHANGED <<opts, rw, heap, mem, structs, ret>>

\* a.rw.Unlock()
Unlock(t) ==
    /\ calls[t].pc = "Unlock"
    /\ rw' = [rw EXCEPT !.writer = @ \ {t}]
    /\ Goto(t, "done")
    /\ UNCHANGED <<opts, dict, heap, mem, structs, ret>>

\* return sTyp, nil (Analyze); return newStruct(sTyp, ptr), nil (Access, MustAccess)
Finish(t) ==
    /\ calls[t].pc = "done"
    /\ IF calls[t].op = "Analyze"
       THEN /\ Return(t, Result(calls[t].sTyp, Nil, NoErr))
            /\ UNCHANGED structs
       ELSE /\ structs' = Append(structs, newStruct(calls[t].sTyp, calls[t].ptr, heap))
            /\ Return(t, Result(calls[t].sTyp, Len(structs) + 1, NoErr))
    /\ UNCHANGED <<opts, dict, rw, heap, mem, ret>>

(***************************************************************************)
(* Configurations: New(WithMaxDeep, WithIterator, WithGroupBy).            *)
(***************************************************************************)
Options(maxDeep, iterator, grp) ==
    [maxDeep |-> maxDeep, iterator |-> iterator, groupBy |-> grp]

\* the selectors of the members of T down to the deepest level the bound allows
Selectors(T) ==
    LET s == newStructType(Options(MaxDeepBound, NoFn, NoFn), 0, StructPtr(T))
    IN {s.fields[i].selector : i \in 1..Len(s.fields)}

\* the iterators that answer something other than Take for at most two members of T
Iterators(T) ==
    {NoFn} \cup
    { [on |-> TRUE, tab |-> tab] :
        tab \in UNION { [D -> IterPolicy \ {Take}] :
                          D \in {X \in SUBSET Selectors(T) : Cardinality(X) <= 2} } }

GroupBys == {NoFn, [on |-> TRUE, tab |-> <<"kind">>], [on |-> TRUE, tab |-> <<"ptr">>]}

\* New() and two configured factories, for the histories of calls
FactoryOptions ==
    { Options(DefaultMaxDeep, NoFn, NoFn) } \cup
    { Options(d, [on |-> TRUE, tab |-> (<<".", "P2">> :> SkipOffspring)], g) :
        d \in 1..MaxDeepBound, g \in GroupBys \ {NoFn} }

(***************************************************************************)
(* Spec: one caller makes up to MaxCalls calls of Analyze, Access,         *)
(* MustAccess and StructType.Access, one after the other.                  *)
(***************************************************************************)
Init ==
    /\ opts \in FactoryOptions
    /\ dict = <<>>
    /\ rw = unlocked
    /\ heap = <<>>
    /\ calls = [t \in {1} |-> Idle]
    /\ mem = InitMem
    /\ structs = <<>>
    /\ ret = NoRet

CallAnalyze == \E t \in Threads, arg \in Args : Invoke(t, "Analyze", arg, Nil)
CallAccess == \E t \in Threads, arg \in Args : Invoke(t, "Access", arg, Nil)
CallMustAccess == \E t \in Threads, arg \in ValidArgs : Invoke(t, "MustAccess", arg, Nil)
CallStructTypeAccess ==
    \E t \in Threads, arg \in Args, s \in 1..Len(heap) : Invoke(t, "StructType.Access", arg, s)
RunAnalyze == \E t \in Threads : Analyze(t)
RunAccess == \E t \in Threads : Access(t)
RunMustAccess == \E t \in Threads : MustAccess(t)
RunStructTypeAccess == \E t \in Threads : StructTypeAccess(t)

Next ==
    \/ CallAnalyze
    \/ CallAccess
    \/ CallMustAccess
    \/ CallStructTypeAccess
    \/ RunAnalyze
    \/ RunAccess
    \/ RunMustAccess
    \/ RunStructTypeAccess

Spec == Init /\ [][Next]_vars

(***************************************************************************)
(* SpecShape: the analysis of one type under every configuration of the    *)
(* bounded family, and under the configuration of New().                   *)
(***************************************************************************)
InitShape ==
    /\ \E i \in 1..Len(RootTypes) :
          /\ opts \in { Options(d, it, g) :
                          d \in 1..MaxDeepBound, it \in Iterators(RootTypes[i]), g \in GroupBys }
                     \cup { Options(DefaultMaxDeep, NoFn, NoFn) }
          /\ calls = [t \in {1} |->
                        [Idle EXCEPT !.pc = "called", !.op = "Analyze",
                                     !.arg = StructPtr(RootTypes[i])]]
    /\ dict = <<>>
    /\ rw = unlocked
    /\ heap = <<>>
    /\ mem = InitMem
    /\ structs = <<>>
    /\ ret = NoRet

NextShape == RunAnalyze

SpecShape == InitShape /\ [][NextShape]_vars

(***************************************************************************)
(* SpecConc: two callers share one Accessor and each calls Analyze, Access *)
(* and MustAccess up to MaxConcCalls times; their steps interleave.        *)
(***************************************************************************)
MaxConcCalls == 2

ConcArgs == {StructPtr("P1"), [typ |-> <<"P1">>, ptr |-> Nil]}

InitConc ==
    /\ opts \in { Options(MaxDeepBound, NoFn, NoFn),
                  Options(MaxDeepBound, [on |-> TRUE, tab |-> (<<".", "P2">> :> SkipOffspring)],
                          [on |-> TRUE, tab |-> <<"kind">>]) }
    /\ dict = <<>>
    /\ rw = unlocked
    /\ heap = <<>>
    /\ calls = << [Idle EXCEPT !.max = MaxConcCalls], [Idle EXCEPT !.max = MaxConcCalls] >>
    /\ mem = InitMem
    /\ structs = <<>>
    /\ ret = NoRet

ConcCallAnalyze == \E t \in Threads, arg \in ConcArgs : Invoke(t, "Analyze", arg, Nil)
ConcCallAccess == \E t \in Threads, arg \in ConcArgs : Invoke(t, "Access", arg, Nil)
ConcCallMustAccess ==
    \E t \in Threads, arg \in ConcArgs \cap ValidArgs : Invoke(t, "MustAccess", arg, Nil)
StepParse == \E t \in Threads : Parse(t)
StepRLock == \E t \in Threads : RLock(t)
StepRead == \E t \in Threads : Read(t)
StepRUnlock == \E t \in Threads : RUnlock(t)
StepBuild == \E t \in Threads : Build(t)
StepLock == \E t \in Threads : Lock(t)
StepStore == \E t \in Threads : Store(t)
StepUnlock == \E t \in Threads : Unlock(t)
StepFinish == \E t \in Threads : Finish(t)

NextConc ==
    \/ ConcCallAnalyze
    \/ ConcCallAccess
    \/ ConcCallMustAccess
    \/ StepParse
    \/ StepRLock
    \/ StepRead
    \/ StepRUnlock
    \/ StepBuild
    \/ StepLock
    \/ StepStore
    \/ StepUnlock
    \/ StepFinish

SpecConc == InitConc /\ [][NextConc]_vars

(***************************************************************************)
(* The instance as the Go program sees it: p.P2.P3.g is reached from the   *)
(* root by member offsets and pointer dereferences.                        *)
(***************************************************************************)
\* the member names of a selector: <<".", "P2", ".", "C">> names P2 then C
SelNames(sel) == [i \in 1..(Len(sel) \div 2) |-> sel[2 * i]]

MemberIndex(T, name) == CHOOSE i \in 1..NumField(T) : StructDef[T][i].Name = name

RECURSIVE Follow(_, _, _)
\* the address of the value that the cell of type typ leads to through all its
\* pointers, Nil when one of them is nil
Follow(m, cell, typ) ==
    IF Kind(typ) # "ptr" THEN cell
    ELSE IF m[cell] = Nil THEN Nil
         ELSE Follow(m, m[cell], Elem(typ))

RECURSIVE PtrChain(_, _, _)
\* the pointers met on that way, each with the cell that holds it and its type
PtrChain(m, cell, typ) ==
    IF Kind(typ) # "ptr" THEN {}
    ELSE {[at |-> cell, typ |-> typ]} \cup
         (IF m[cell] = Nil THEN {} ELSE PtrChain(m, m[cell], Elem(typ)))

RECURSIVE GoAddr(_, _, _, _)
\* the address of the member that names selects in the record of type T at addr,
\* all pointers dereferenced; Nil when a pointer on the way is nil
GoAddr(m, addr, T, names) ==
    IF names = <<>> THEN addr
    ELSE LET f == StructField(T, MemberIndex(T, Head(names)))
             a == Follow(m, addr + f.Offset, f.Type)
         IN IF a = Nil THEN Nil
            ELSE GoAddr(m, a, Head(StripPtr(f.Type, 0).elemTyp), Tail(names))

RECURSIVE PathPtrs(_, _, _, _)
\* the pointers on the way to that member, as far as they can be followed
PathPtrs(m, addr, T, names) ==
    IF names = <<>> THEN {}
    ELSE LET f == StructField(T, MemberIndex(T, Head(names)))
             a == Follow(m, addr + f.Offset, f.Type)
         IN PtrChain(m, addr + f.Offset, f.Type) \cup
            (IF a = Nil THEN {}
             ELSE PathPtrs(m, a, Head(StripPtr(f.Type, 0).elemTyp), Tail(names)))

\* the pointers of the instance of type T at addr that the program can reach
Pointers(m, addr, T) ==
    UNION { PathPtrs(m, addr, T, SelNames(sel)) : sel \in Selectors(T) }

(***************************************************************************)
(* SpecAccess: two accessors are bound to one instance; before the first   *)
(* is bound the caller may set up to MaxPrealloc of the instance's nil     *)
(* pointers, and up to MaxOps operations are then performed on the shape   *)
(* and the accessors, each FieldValue or Field possibly followed by a      *)
(* write through the view it returned.  ret is the last operation: its     *)
(* name, accessor, id, results, the number of targets it allocated, the   *)
(* number of operations so far and whether the field was resolved before.  *)
(***************************************************************************)
Ret(op, acc, id, typ, val, seen, allocs, n) ==
    [op |-> op, acc |-> acc, id |-> id, typ |-> typ, val |-> val, seen |-> seen,
     allocs |-> allocs, n |-> n,
     hit |-> /\ acc \in 1..Len(structs)
             /\ id + 1 \in DOMAIN structs[acc].fieldValues
             /\ structs[acc].fieldValues[id + 1].elemPtr > 0]

OpCount == IF ret = NoRet THEN 0 ELSE ret.n

\* the shape of accessor a, the root of the instance it is bound to and its type
ShapeOf(a) == heap[structs[a].typ]
RootOf(a) == structs[a].value.elemPtr
RootType(a) == Head(ShapeOf(a).tree.elemTyp)

\* the targets that a step from memory m to memory n allocated on the way to field
\* id of accessor a
Allocs(a, id, m, n) ==
    IF ~checkID(ShapeOf(a), id) THEN 0
    ELSE Cardinality({ c \in PathPtrs(n, RootOf(a), RootType(a),
                                       SelNames(ShapeOf(a).fields[id + 1].selector)) :
                         n[c.at] > Len(m) })

AccessOptions ==
    { Options(MaxDeepBound, NoFn, [on |-> TRUE, tab |-> <<"kind">>]),
      Options(MaxDeepBound,
              [on |-> TRUE, tab |-> (<<".", "b">> :> Skip) @@ (<<".", "L", ".", "x">> :> Skip)],
              [on |-> TRUE, tab |-> <<"ptr">>]),
      Options(MaxDeepBound, NoFn, NoFn) }

Groups == {"int", "struct", "ptr", "none"}

InitAccess ==
    /\ opts \in AccessOptions
    /\ dict = <<>>
    /\ rw = unlocked
    /\ heap = <<>>
    /\ \E arg \in ValidArgs :
          calls = << [Idle EXCEPT !.pc = "called", !.op = "Access", !.arg = arg, !.max = 2] >>
    /\ mem = InitMem
    /\ structs = <<>>
    /\ ret = NoRet

\* p.P2.P3 = new(P3) and the like, before the instance is bound
Prealloc ==
    /\ structs = <<>>
    /\ \E T \in {calls[1].arg.typ[2]} :
       \E c \in Pointers(mem, Base(T), T) :
          /\ mem[c.at] = Nil
          /\ Cardinality({d \in Pointers(mem, Base(T), T) : mem[d.at] # Nil}) < MaxPrealloc
          /\ mem' = SetNew([ptr |-> Nil, at |-> c.at, typ |-> c.typ], mem).m
    /\ UNCHANGED <<opts, dict, rw, heap, calls, structs, ret>>

\* a second Access on the same instance
BindAgain == \E t \in Threads : calls[t].n > 0 /\ Invoke(t, "Access", calls[t].arg, Nil)

\* v := s.FieldValue(id)
OpFieldValue ==
    /\ OpCount < MaxOps
    /\ \E a \in 1..Len(structs) : \E id \in -1..NumFields(ShapeOf(a)) :
       \E r \in {FieldValue(ShapeOf(a), structs[a], id, mem)} :
          /\ structs' = [structs EXCEPT ![a] = r.s]
          /\ mem' = r.m
          /\ ret' = Ret("FieldValue", a, id, NilField, r.val, <<>>,
                        Allocs(a, id, mem, r.m), OpCount + 1)
    /\ UNCHANGED <<opts, dict, rw, heap, calls>>

\* t, v := s.Field(id)
OpField ==
    /\ OpCount < MaxOps
    /\ \E a \in 1..Len(structs) : \E id \in -1..NumFields(ShapeOf(a)) :
       \E r \in {Field(ShapeOf(a), structs[a], id, mem)} :
          /\ structs' = [structs EXCEPT ![a] = r.s]
          /\ mem' = r.m
          /\ ret' = Ret("Field", a, id, r.typ, r.val, <<>>,
                        Allocs(a, id, mem, r.m), OpCount + 1)
    /\ UNCHANGED <<opts, dict, rw, heap, calls>>

\* s.Range(fn), fn returning false at field stop
OpRange ==
    /\ OpCount < MaxOps
    /\ \E a \in 1..Len(structs) : \E stop \in -1..(NumFields(ShapeOf(a)) - 1) :
       \E r \in {Range(ShapeOf(a), structs[a], stop, mem)} :
          /\ structs' = [structs EXCEPT ![a] = r.s]
          /\ mem' = r.m
          /\ ret' = Ret("Range", a, stop, NilField, zero, r.seen, 0, OpCount + 1)
    /\ UNCHANGED <<opts, dict, rw, heap, calls>>

\* s.GroupValues(group)
OpGroupValues ==
    /\ OpCount < MaxOps
    /\ \E a \in 1..Len(structs) : \E group \in Groups :
       \E r \in {GroupValues(ShapeOf(a), structs[a], group, mem)} :
          /\ structs' = [structs EXCEPT ![a] = r.s]
          /\ mem' = r.m
          /\ ret' = [group |-> group] @@
                    Ret("GroupValues", a, rootID, NilField, zero,
                        [i \in 1..Len(r.vals) |->
                              [id |-> FieldAt(ShapeOf(a), GroupTypes(ShapeOf(a), group)[i]).id,
                               val |-> r.vals[i]]],
                          0, OpCount + 1)
    /\ UNCHANGED <<opts, dict, rw, heap, calls>>

\* v.SetInt(int64(id + 1)) on the view the last FieldValue or Field returned
OpWrite ==
    /\ ret # NoRet
    /\ ret.op \in {"FieldValue", "Field"}
    /\ ret.val # zero
    /\ ret.val.addr \in DOMAIN mem
    /\ Kind(ret.val.typ) = "int"
    /\ mem' = [mem EXCEPT ![ret.val.addr] = ret.id + 1]
    /\ ret' = [ret EXCEPT !.op = "Write"]
    /\ UNCHANGED <<opts, dict, rw, heap, calls, structs>>

NextAccess ==
    \/ Prealloc
    \/ RunAccess
    \/ BindAgain
    \/ OpFieldValue
    \/ OpField
    \/ OpRange
    \/ OpGroupValues
    \/ OpWrite

SpecAccess == InitAccess /\ [][NextAccess]_vars

(***************************************************************************)
(* What the claims speak of.                                               *)
(***************************************************************************)
Shapes == {heap[k] : k \in 1..Len(heap)}

\* the fields of the flat list, the fields handed to the iterator
Included(s) == {s.fields[i] : i \in 1..Len(s.fields)}
Logged(s) == {s.log[i] : i \in 1..Len(s.log)}

IncludedSel(s) == {f.selector : f \in Included(s)}
LoggedSel(s) == {f.selector : f \in Logged(s)}

\* what the configured iterator answers for x
Policy(x) == IteratorCall(opts.iterator, x)

\* the address of the included field that selector sel names
AddrOf(s, sel) == CHOOSE p \in 0..(Len(s.fields) - 1) : s.fields[p + 1].selector = sel

\* the included field of selector sel had its members enumerated
Expanded(s, sel) ==
    /\ sel \in IncludedSel(s)
    /\ AddrOf(s, sel) \in {s.expanded[i] : i \in 1..Len(s.expanded)}

\* selector b names a member below the member selector a names
Below(a, b) == Len(b) > Len(a) /\ SubSeq(b, 1, Len(a)) = a

\* the number of members of the record level x belongs to
Siblings(s, x) == NumField(Head(FieldAt(s, x.parent).elemTyp))

\* the entry of the log that follows x is the next member of x's level
NextSiblingSeen(s, x) ==
    \E i \in 1..Len(s.log) - 1 :
        /\ s.log[i] = x
        /\ s.log[i + 1].parent = x.parent
        /\ s.log[i + 1].Index = x.Index + 1

\* C1: in every analysed shape the descriptor at position i of the flat field list
\* has id i (so the ids are exactly 0..NumField()-1, without gap or duplicate) and
\* FieldType(i).ID() = i for every valid i, whatever the iterator excluded.
C1_IdsDense ==
    \A s \in Shapes :
        /\ \A i \in 1..Len(s.fields) : s.fields[i].id = i - 1
        /\ {f.id : f \in Included(s)} = 0..(NumFields(s) - 1)
        /\ \A id \in 0..(NumFields(s) - 1) :
              FieldType(s, id) # NilField /\ FieldType(s, id).id = id
        /\ \A id \in {-1, NumFields(s)} : FieldType(s, id) = NilField

\* C1 witness: a shape of at least three fields from which the iterator excluded
\* a member that was not the last one it saw
C1_Witness ==
    \E s \in Shapes :
        /\ NumFields(s) >= 3
        /\ \E i \in 1..Len(s.log) - 1 :
              /\ Policy(s.log[i]) = Skip
              /\ s.log[i + 1].selector \in IncludedSel(s)

\* C4 (as claimed): a member for which the iterator returns Hide or HideAndStop is
\* not in the field list and none of its sub-members is; after Hide the next member
\* of the level is processed, after HideAndStop no later member of the level is.
C4_HideExcluded ==
    \A s \in Shapes : \A x \in Logged(s) :
        /\ Policy(x) \in {Hide, HideAndStop} =>
              /\ x.selector \notin IncludedSel(s)
              /\ \A y \in Included(s) : ~Below(x.selector, y.selector)
        /\ (Policy(x) = Hide /\ x.Index < Siblings(s, x)) => NextSiblingSeen(s, x)
        /\ Policy(x) = HideAndStop =>
              \A y \in Logged(s) : ~(y.parent = x.parent /\ y.Index > x.Index)

\* C5: a composite member answered with SkipOffspring is in the field list and none
\* of its sub-members is; a member answered with Skip is not in the list and none of
\* its sub-members is; in both cases the next member of the level is processed.
C5_SkipOffspringAndSkip ==
    \A s \in Shapes : \A x \in Logged(s) :
        /\ Policy(x) = SkipOffspring =>
              /\ \E f \in Included(s) : f.selector = x.selector /\ f.children = <<>>
              /\ \A y \in Included(s) \cup Logged(s) : ~Below(x.selector, y.selector)
        /\ Policy(x) = Skip =>
              /\ x.selector \notin IncludedSel(s)
              /\ \A y \in Included(s) \cup Logged(s) : ~Below(x.selector, y.selector)
        /\ (Policy(x) \in {SkipOffspring, Skip} /\ x.Index < Siblings(s, x)) =>
              NextSiblingSeen(s, x)

\* C5 witness: one analysis in which a composite member got SkipOffspring and another
\* composite member got Skip, with room left under the ceiling to expand a level, and
\* the member after them was included
C5_Witness ==
    \E s \in Shapes : \E x, y, z \in Logged(s) :
        /\ Policy(x) = SkipOffspring /\ Kind(x.elemTyp) = "struct"
        /\ Policy(y) = Skip /\ Kind(y.elemTyp) = "struct"
        /\ x.selector \in IncludedSel(s) /\ y.selector \notin IncludedSel(s)
        /\ s.depth < opts.maxDeep
        /\ z.parent = y.parent /\ z.Index > y.Index /\ z.selector \in IncludedSel(s)

\* the members of x's level that were queued for expansion when the loop reached a
\* stop at x: the composite members at earlier positions answered with Take, and x
\* itself when it is composite and answered with TakeAndStop
QueuedAt(s, x) ==
    { y \in Logged(s) :
        /\ y.parent = x.parent
        /\ Kind(y.elemTyp) = "struct"
        /\ \/ y.Index < x.Index /\ Policy(y) = Take
           \/ y = x /\ Policy(x) = TakeAndStop }

StopPolicies == {TakeAndStop, SkipOffspringAndStop, SkipAndStop}

\* the first two parts of C6: after a stop at x no later member of x's level is
\* handed to the iterator or included, and the members of the level included before
\* the stop are in the field list
StopHaltsLevel(s, x) ==
    /\ \A y \in Logged(s) \cup Included(s) : ~(y.parent = x.parent /\ y.Index > x.Index)
    /\ \A y \in Logged(s) :
          (y.parent = x.parent /\ y.Index < x.Index /\ Policy(y) \in {Take, SkipOffspring})
              => y.selector \in IncludedSel(s)
    /\ Policy(x) \in {TakeAndStop, SkipOffspringAndStop} <=> x.selector \in IncludedSel(s)

\* C6 (as claimed): after TakeAndStop, SkipOffspringAndStop or SkipAndStop at a member
\* no later member of that level is included or handed to the iterator, the members
\* included before are kept, and every composite member queued at that level is
\* expanded afterwards.
C6_StopThenExpandAll ==
    \A s \in Shapes : \A x \in Logged(s) :
        Policy(x) \in StopPolicies =>
            /\ StopHaltsLevel(s, x)
            /\ \A y \in QueuedAt(s, x) : Expanded(s, y.selector)

\* C6 (amended): as above, but a queued composite member is expanded afterwards
\* unless the analysis has by then expanded maxDeep record levels, in which case
\* Depth() equals the ceiling.
C6_StopThenExpandUnderCeiling ==
    \A s \in Shapes : \A x \in Logged(s) :
        Policy(x) \in StopPolicies =>
            /\ StopHaltsLevel(s, x)
            /\ \A y \in QueuedAt(s, x) :
                  \/ Expanded(s, y.selector)
                  \/ s.depth = opts.maxDeep

\* C6 witness: a level of three members where the first, composite, was taken, the
\* second, composite, got TakeAndStop, both were expanded afterwards, and the third
\* was neither handed to the iterator nor included
C6_Witness ==
    \E s \in Shapes : \E x \in Logged(s) :
        /\ Policy(x) = TakeAndStop
        /\ x.Index < Siblings(s, x)
        /\ Cardinality(QueuedAt(s, x)) = 2
        /\ \A y \in QueuedAt(s, x) :
              /\ Expanded(s, y.selector)
              /\ \E c \in Included(s) : c.parent = AddrOf(s, y.selector)
        /\ \A y \in Logged(s) \cup Included(s) : ~(y.parent = x.parent /\ y.Index > x.Index)

\* a call of thread t returns in this step
Returns(t) == calls[t].pc # "idle" /\ calls'[t].pc = "idle"

\* the argument is a pointer to a record
IsStructPtr(arg) == Len(arg.typ) = 2 /\ arg.typ[1] = "ptr" /\ arg.typ[2] \in StructNames

\* C8: Analyze and Access given a non-pointer or a pointer to a non-record return the
\* IllegalType error and no shape or accessor, and leave the shape cache, the built
\* shapes and the accessors as they were; StructType.Access given an instance whose
\* runtime type differs from the shape's returns the TypeMismatch error and no
\* accessor, and creates none.
C8_BindingFailsWithoutEffect ==
    [][ \A t \in Threads : Returns(t) =>
          /\ (calls[t].op \in {"Analyze", "Access"} /\ ~IsStructPtr(calls[t].arg)) =>
                /\ calls'[t].res = Result(Nil, Nil, errIllegalType)
                /\ dict' = dict /\ heap' = heap /\ structs' = structs
          /\ (/\ calls[t].op = "StructType.Access"
              /\ heap[calls[t].recv].tid # RuntimeTypeID(calls[t].arg.typ)) =>
                /\ calls'[t].res = Result(Nil, Nil, errTypeMismatch)
                /\ dict' = dict /\ heap' = heap /\ structs' = structs ]_vars

\* C8 witness: with the shapes of two types in the cache, StructType.Access on the
\* shape of one of them was given a pointer to a record of the other type and
\* returned the TypeMismatch error
C8_Witness ==
    \E t \in Threads :
        /\ calls[t].pc = "idle" /\ calls[t].op = "StructType.Access"
        /\ IsStructPtr(calls[t].arg)
        /\ RuntimeTypeID(calls[t].arg.typ) \in DOMAIN dict
        /\ heap[calls[t].recv].tid # RuntimeTypeID(calls[t].arg.typ)
        /\ calls[t].res.err = errTypeMismatch

\* every built shape is the one the cache holds for its type, and every accessor is
\* bound to a cached shape
OneShapePerType ==
    /\ \A k \in 1..Len(heap) : heap[k].tid \in DOMAIN dict /\ dict[heap[k].tid] = k
    /\ \A tid \in DOMAIN dict : dict[tid] \in 1..Len(heap) /\ heap[dict[tid]].tid = tid
    /\ \A i \in 1..Len(structs) : dict[heap[structs[i].typ].tid] = structs[i].typ

\* C9: in a sequential history of Analyze, Access and MustAccess calls the first call
\* for a type builds its shape and inserts it, every later call for the type returns
\* that cached shape and builds nothing, no cache entry is removed or replaced and no
\* built shape changes; so each built shape is the one cached for its type.
C9_BuiltExactlyOnce ==
    [][ /\ OneShapePerType'
        /\ \A tid \in DOMAIN dict : tid \in DOMAIN dict' /\ dict'[tid] = dict[tid]
        /\ Len(heap') >= Len(heap) /\ SubSeq(heap', 1, Len(heap)) = heap
        /\ \A t \in Threads :
              (/\ Returns(t)
               /\ calls[t].op \in {"Analyze", "Access", "MustAccess"}
               /\ IsStructPtr(calls[t].arg)) =>
                 \E tid \in {RuntimeTypeID(calls[t].arg.typ)} :
                    IF tid \in DOMAIN dict
                    THEN heap' = heap /\ dict' = dict /\ calls'[t].res.sTyp = dict[tid]
                    ELSE /\ Len(heap') = Len(heap) + 1
                         /\ DOMAIN dict' = DOMAIN dict \cup {tid}
                         /\ dict'[tid] = Len(heap')
                         /\ calls'[t].res.sTyp = Len(heap') ]_vars

\* C9 witness: three calls for one type have returned, one shape was built, and the
\* two accessors made are bound to it
C9_Witness ==
    \E t \in Threads :
        /\ calls[t].pc = "idle" /\ calls[t].n = 3
        /\ calls[t].op = "Analyze" /\ calls[t].res.err = NoErr
        /\ Len(heap) = 1 /\ calls[t].res.sTyp = 1
        /\ Len(structs) = 2 /\ structs[1].typ = 1 /\ structs[2].typ = 1

\* two shapes have the same ids, offsets, name paths and levels, field by field
SameStructure(a, b) ==
    /\ a.tid = b.tid
    /\ Len(a.fields) = Len(b.fields)
    /\ \A i \in 1..Len(a.fields) :
          /\ a.fields[i].id = b.fields[i].id
          /\ a.fields[i].Offset = b.fields[i].Offset
          /\ a.fields[i].selector = b.fields[i].selector
          /\ a.fields[i].deep = b.fields[i].deep

AllReturned == \A t \in Threads : calls[t].pc = "idle"

\* C10: when callers resolve one type concurrently, any two shapes built for the type
\* have the same ids, offsets and name paths and every caller receives a shape of the
\* type it asked for; once all calls have returned the cache holds one shape for each
\* type that was resolved, and a call that begins after that returns the cached shape.
C10_ConcurrentResolveConverges ==
    /\ \A a, b \in Shapes : a.tid = b.tid => SameStructure(a, b)
    /\ \A t \in Threads :
          (calls[t].pc = "idle" /\ calls[t].res.sTyp # Nil) =>
              /\ calls[t].res.sTyp \in 1..Len(heap)
              /\ heap[calls[t].res.sTyp].tid = RuntimeTypeID(calls[t].arg.typ)
    /\ AllReturned =>
          /\ \A k \in 1..Len(heap) : heap[k].tid \in DOMAIN dict
          /\ \A tid \in DOMAIN dict : dict[tid] \in 1..Len(heap) /\ heap[dict[tid]].tid = tid
    /\ \A t \in Threads :
          (calls[t].pc = "idle" /\ calls[t].settled # Nil) =>
              /\ calls[t].res.sTyp = calls[t].settled
              /\ dict[RuntimeTypeID(calls[t].arg.typ)] = calls[t].settled

\* C10 witness: the shape of one type was built twice by concurrent calls, all calls
\* have returned, and a call made after both had returned got the cached shape
C10_Witness ==
    /\ AllReturned
    /\ Len(heap) = 2 /\ heap[1].tid = heap[2].tid
    /\ \E t \in Threads : calls[t].settled # Nil /\ calls[t].res.sTyp = calls[t].settled

\* the selector, as member names, of field id of accessor a
NamesOf(a, id) == SelNames(ShapeOf(a).fields[id + 1].selector)

\* C2: after FieldValue or Field has resolved a field, every pointer on the way from
\* the root of the instance to the field is non-nil, the view returned is at the
\* address the program reaches by following those pointers from the root, and a value
\* written through the view is the value read there.
C2_WriteSurvivesMaterialization ==
    (/\ ret # NoRet
     /\ ret.op \in {"FieldValue", "Field", "Write"}
     /\ checkID(ShapeOf(ret.acc), ret.id)) =>
        /\ \A c \in PathPtrs(mem, RootOf(ret.acc), RootType(ret.acc), NamesOf(ret.acc, ret.id)) :
              mem[c.at] # Nil
        /\ GoAddr(mem, RootOf(ret.acc), RootType(ret.acc), NamesOf(ret.acc, ret.id)) # Nil
        /\ ret.val.addr =
              GoAddr(mem, RootOf(ret.acc), RootType(ret.acc), NamesOf(ret.acc, ret.id))
        /\ ret.op = "Write" =>
              mem[GoAddr(mem, RootOf(ret.acc), RootType(ret.acc), NamesOf(ret.acc, ret.id))]
                  = ret.id + 1

\* C2 witness: the first resolve of a field of pointer depth two behind a nil pointer
\* to its record allocated three targets, and a value was written through the view
C2_Witness ==
    /\ ret # NoRet
    /\ ret.op = "Write"
    /\ ret.allocs = 3
    /\ ShapeOf(ret.acc).fields[ret.id + 1].ptrNum = 2
    /\ mem[ret.val.addr] = ret.id + 1

\* an operation on an accessor is performed in this step
Performed == ret' # NoRet /\ ret'.n = OpCount + 1

Filled(a, id) == structs[a].fieldValues[id + 1].elemPtr > 0

\* C3: a filled slot of an accessor's cache is never cleared or changed by a later
\* step; FieldValue and Field on a field resolved before return the cached view, whose
\* address is the one first resolved, and touch neither the cache nor the instance;
\* Range and GroupValues hand out the cached view of every field resolved before.
C3_CacheMonotonic ==
    [][ /\ \A a \in 1..Len(structs) : \A i \in DOMAIN structs[a].fieldValues :
              Filled(a, i - 1) =>
                  /\ a \in 1..Len(structs')
                  /\ structs'[a].fieldValues[i] = structs[a].fieldValues[i]
        /\ (/\ Performed
            /\ ret'.op \in {"FieldValue", "Field"}
            /\ checkID(ShapeOf(ret'.acc), ret'.id)
            /\ Filled(ret'.acc, ret'.id)) =>
                /\ ret'.val = structs[ret'.acc].fieldValues[ret'.id + 1].elemVal
                /\ ret'.val.addr = structs[ret'.acc].fieldValues[ret'.id + 1].elemPtr
                /\ structs' = structs
                /\ mem' = mem
        /\ (Performed /\ ret'.op \in {"Range", "GroupValues"}) =>
                \A k \in 1..Len(ret'.seen) :
                    Filled(ret'.acc, ret'.seen[k].id) =>
                        ret'.seen[k].val =
                            structs[ret'.acc].fieldValues[ret'.seen[k].id + 1].elemVal ]_vars

\* C3 witness: FieldValue was called on a pointer field that an earlier operation on
\* the accessor had resolved, and the slots of other fields are filled too
C3_Witness ==
    /\ ret # NoRet
    /\ ret.op = "FieldValue"
    /\ ret.hit
    /\ ShapeOf(ret.acc).fields[ret.id + 1].ptrNum > 0
    /\ \E id \in 0..(NumFields(ShapeOf(ret.acc)) - 1) : id # ret.id /\ Filled(ret.acc, id)

\* C7: for an id outside [0, NumField()) FieldType returns nil, FieldValue returns the
\* zero view and Field returns nil and the zero view, and the call leaves the caches
\* of the accessors and the instance, its nil pointers included, as they were.
C7_InvalidIdResolvesNothing ==
    [][ /\ \A a \in 1..Len(structs) :
              \A id \in {-2, -1, NumFields(ShapeOf(a)), NumFields(ShapeOf(a)) + 1} :
                  FieldType(ShapeOf(a), id) = NilField
        /\ (/\ Performed
            /\ ret'.op \in {"FieldValue", "Field"}
            /\ ret'.id \notin 0..(NumFields(ShapeOf(ret'.acc)) - 1)) =>
                /\ ret'.val = zero
                /\ ret'.op = "Field" => ret'.typ = NilField
                /\ structs' = structs
                /\ mem' = mem ]_vars

\* C7 witness: Field was called with the id one past the last on an accessor that has
\* resolved some field and whose instance still has a nil pointer
C7_Witness ==
    /\ ret # NoRet
    /\ ret.op = "Field"
    /\ ret.id = NumFields(ShapeOf(ret.acc))
    /\ \E id \in 0..(NumFields(ShapeOf(ret.acc)) - 1) : Filled(ret.acc, id)
    /\ \E c \in Pointers(mem, RootOf(ret.acc), RootType(ret.acc)) : mem[c.at] = Nil

\* the included fields below the included field f
Descendants(s, f) == {y \in Included(s) : Below(f.selector, y.selector)}

\* C11 (as claimed): the flat list is in pre-order of the field tree: the ids of the
\* descendants of every included field are the ids that immediately follow its own.
C11_PreOrder ==
    \A s \in Shapes : \A f \in Included(s) :
        {y.id : y \in Descendants(s, f)} = (f.id + 1)..(f.id + Cardinality(Descendants(s, f)))

\* C12: every included field's parent is the root sentinel or an included field of
\* smaller id that lists the field among its children, and the root sentinel, the
\* only descriptor of id -1, is not in the flat list.
C12_ParentBeforeChild ==
    \A s \in Shapes :
        /\ s.tree.id = rootID
        /\ \A p \in 1..Len(s.fields) :
              /\ s.fields[p].id # rootID
              /\ s.fields[p].id >= 0
              /\ s.fields[p].parent # TreeRef =>
                    /\ s.fields[p].parent \in 0..(Len(s.fields) - 1)
                    /\ FieldAt(s, s.fields[p].parent).id < s.fields[p].id
              /\ \E k \in 1..Len(FieldAt(s, s.fields[p].parent).children) :
                    FieldAt(s, s.fields[p].parent).children[k] = p - 1

\* C12 witness: a shape with a field three levels down, analysed with an iterator
\* that excluded a member
C12_Witness ==
    \E s \in Shapes :
        /\ \E f \in Included(s) :
              /\ f.parent # TreeRef
              /\ FieldAt(s, f.parent).parent # TreeRef
        /\ \E x \in Logged(s) : x.selector \notin IncludedSel(s)

\* C13 (as claimed): Deep() is 1 for the members of the root record and the parent's
\* Deep() plus 1 for every other field, and Depth() is the greatest Deep() and at
\* least 1.
C13_DeepIsNestingDepth ==
    \A s \in Shapes :
        /\ \A f \in Included(s) :
              f.deep = IF f.parent = TreeRef THEN 1 ELSE FieldAt(s, f.parent).deep + 1
        /\ s.depth >= 1
        /\ \A f \in Included(s) : f.deep <= s.depth
        /\ Included(s) # {} => \E f \in Included(s) : f.deep = s.depth

\* the greatest number of members of a record type
MaxMembers == CHOOSE n \in 0..8 : /\ \A T \in StructNames : NumField(T) <= n
                                  /\ \E T \in StructNames : NumField(T) = n

RECURSIVE Members(_, _, _)
\* the selectors of the members of record type T, and of their members, down to
\* nesting depth d, prefix being the selector of the record
Members(T, prefix, d) ==
    IF d = 0 THEN {}
    ELSE UNION { {joinFieldName(prefix, StructDef[T][i].Name)} \cup
                 (IF Kind(StripPtr(StructDef[T][i].Type, 0).elemTyp) = "struct"
                  THEN Members(Head(StripPtr(StructDef[T][i].Type, 0).elemTyp),
                               joinFieldName(prefix, StructDef[T][i].Name), d - 1)
                  ELSE {}) : i \in 1..NumField(T) }

\* C16 (as claimed): with no iterator every member of nesting depth at most maxDeep is
\* in the field list.
C16_CeilingLimitsNestingOnly ==
    \A s \in Shapes :
        ~opts.iterator.on =>
            \A sel \in Members(Head(s.tree.elemTyp), <<>>, opts.maxDeep) :
                sel \in IncludedSel(s)

\* the included members of the record the field at address p was expanded into
ChildrenOf(s, p) == [k \in 1..Len(FieldAt(s, p).children) |-> FieldAt(s, FieldAt(s, p).children[k])]

\* the field list of P1 under the configuration of New()
P1Selectors ==
    << <<".", "A">>, <<".", "b">>, <<".", "P2">>,
       <<".", "P2", ".", "C">>, <<".", "P2", ".", "d">>, <<".", "P2", ".", "P3">>,
       <<".", "P2", ".", "P3", ".", "E">>, <<".", "P2", ".", "P3", ".", "f">>,
       <<".", "P2", ".", "P3", ".", "g">> >>

\* C17: the included members of one record level have consecutive ids in declaration
\* order, every field nested below the level has a greater id than all of them, and
\* of two composite members of a level the fields below the earlier one have smaller
\* ids than the fields below the later one; P1 gives A=0, b=1, P2=2, C=3, d=4, P3=5,
\* E=6, f=7, g=8.
C17_LevelByLevel ==
    \A s \in Shapes :
        /\ \A i \in 1..Len(s.expanded) :
           \E ch \in {ChildrenOf(s, s.expanded[i])} :
              /\ \A k \in 1..(Len(ch) - 1) :
                    /\ ch[k + 1].id = ch[k].id + 1
                    /\ ch[k + 1].Index > ch[k].Index
              /\ \A k \in 1..Len(ch) : \A z \in Descendants(s, ch[k]) : z.id > ch[Len(ch)].id
              /\ \A k, l \in 1..Len(ch) :
                    k < l => \A x \in Descendants(s, ch[k]) : \A y \in Descendants(s, ch[l]) :
                                x.id < y.id
        /\ (s.tree.elemTyp = <<"P1">> /\ ~opts.iterator.on /\ opts.maxDeep >= 3) =>
              [i \in 1..Len(s.fields) |-> s.fields[i].selector] = P1Selectors

\* C17 witness: a record with two composite members, both expanded: the members of
\* the first come after all members of the level and before those of the second
C17_Witness ==
    \E s \in Shapes : \E x, y \in Included(s) :
        /\ x.parent = y.parent /\ x.Index < y.Index
        /\ Descendants(s, x) # {} /\ Descendants(s, y) # {}
        /\ \E z \in Included(s) : z.parent = x.parent /\ z.Index > y.Index

\* the positions in s.fields that the classifier of the options labels with label
Labelled(s, label) ==
    {p \in 0..(Len(s.fields) - 1) :
        /\ opts.groupBy.on
        /\ GroupByCall(opts.groupBy, s.fields[p + 1]).ok
        /\ GroupByCall(opts.groupBy, s.fields[p + 1]).group = label}

\* C15: the bucket of a label holds exactly the fields the classifier gave that label
\* with ok = true, each once and in ascending id order; a field with ok = false is in
\* no bucket; GroupValues(label)[i] is the resolved view of GroupTypes(label)[i]; an
\* unknown label, and every label when no classifier was configured, gives an empty
\* GroupTypes and an empty GroupValues.
C15_GroupsFollowClassifier ==
    [][ /\ \A a \in 1..Len(structs) :
           /\ DOMAIN ShapeOf(a).fieldGroup \subseteq Groups
           /\ \A label \in Groups :
                 \E B \in {GroupTypes(ShapeOf(a), label)} :
                    /\ {B[i] : i \in 1..Len(B)} = Labelled(ShapeOf(a), label)
                    /\ \A i \in 1..(Len(B) - 1) :
                          FieldAt(ShapeOf(a), B[i]).id < FieldAt(ShapeOf(a), B[i + 1]).id
                    /\ (~opts.groupBy.on \/ label = "none") => B = <<>>
        /\ (Performed /\ ret'.op = "GroupValues") =>
              \E a \in {ret'.acc} : \E B \in {GroupTypes(ShapeOf(a), ret'.group)} :
                 /\ Len(ret'.seen) = Len(B)
                 /\ \A i \in 1..Len(B) :
                       \E f \in {FieldAt(ShapeOf(a), B[i])} :
                          /\ ret'.seen[i].id = f.id
                          /\ ret'.seen[i].val.typ = f.elemTyp
                          /\ ret'.seen[i].val.addr # Nil
                          /\ ret'.seen[i].val.addr =
                                GoAddr(mem', RootOf(a), RootType(a), SelNames(f.selector))
                          /\ ret'.seen[i].val = structs'[a].fieldValues[f.id + 1].elemVal
    ]_vars

\* GroupValues has returned the views of a bucket of two fields or more that leaves
\* out a field the classifier answered ok = false for, and at least one of the
\* views was resolved by that call
C15_Witness ==
    /\ ret # NoRet
    /\ ret.op = "GroupValues"
    /\ ret.group = "ptr"
    /\ Len(ret.seen) >= 2
    /\ Len(ret.seen) < Len(ShapeOf(ret.acc).fields)
    /\ ~ret.hit
    /\ ret.n = 1

\* the id of the last field a Range stopped at stop hands to its callback
LastOf(a, stop) ==
    IF stop \in 0..(NumFields(ShapeOf(a)) - 1) THEN stop ELSE NumFields(ShapeOf(a)) - 1

\* C18: Range hands the fields to its callback in ascending id order, each at most
\* once, and stops at the first false answer; when the callback answered false at
\* field k, no field of an id above k was handed over or resolved: the cache slot of
\* such a field is as it was, and so is every nil pointer that lies on no path to a
\* field of id k or less.
C18_RangeStopsAtFalse ==
    [][ (Performed /\ ret'.op = "Range") =>
          \E a \in {ret'.acc} : \E k \in {LastOf(ret'.acc, ret'.id)} :
             /\ Len(ret'.seen) = k + 1
             /\ \A i \in 1..(k + 1) :
                   /\ ret'.seen[i].id = i - 1
                   /\ ret'.seen[i].val = structs'[a].fieldValues[i].elemVal
                   /\ ret'.seen[i].val.addr =
                         GoAddr(mem', RootOf(a), RootType(a), NamesOf(a, i - 1))
             /\ \A id \in (k + 1)..(NumFields(ShapeOf(a)) - 1) :
                   structs'[a].fieldValues[id + 1] = structs[a].fieldValues[id + 1]
             /\ \A b \in 1..Len(structs) : b # a => structs'[b] = structs[b]
             /\ \A c \in 1..Len(mem) : mem'[c] # mem[c] =>
                   /\ mem[c] = Nil
                   /\ \E id \in 0..k : \E p \in PathPtrs(mem', RootOf(a), RootType(a),
                                                         NamesOf(a, id)) : p.at = c
             /\ \A p \in Pointers(mem', RootOf(a), RootType(a)) :
                   (p.at > Len(mem) /\ mem'[p.at] # Nil) =>
                      \E id \in 0..k : p \in PathPtrs(mem', RootOf(a), RootType(a),
                                                      NamesOf(a, id))
    ]_vars

\* a Range whose callback answered false before the last field has returned: it
\* resolved the field it stopped at through a pointer, and the next field's slot is
\* still empty and a pointer of the instance still nil
C18_Witness ==
    /\ ret # NoRet
    /\ ret.op = "Range"
    /\ ret.n = 1
    /\ ret.id \in 0..(NumFields(ShapeOf(ret.acc)) - 2)
    /\ Len(ret.seen) = ret.id + 1
    /\ ShapeOf(ret.acc).fields[ret.id + 1].ptrNum > 0
    /\ Filled(ret.acc, ret.id)
    /\ ~Filled(ret.acc, ret.id + 1)
    /\ \E p \in Pointers(mem, RootOf(ret.acc), RootType(ret.acc)) : mem[p.at] = Nil

(***************************************************************************)
(* SpecRace: two threads share one Struct accessor, bound to an instance   *)
(* whose pointers are nil, and each calls FieldValue(id) for the same id   *)
(* and then writes through the view it got.  Nothing in Struct orders the  *)
(* two calls, so every read and every write of the cache slots and of the  *)
(* instance's cells is a step of its own; the four words of a cache slot   *)
(* are written in two steps, the view and the address, in either order.    *)
(* calls[t] holds the locals of thread t: stk is its stack of init calls   *)
(* (the *FieldType each was called on), pVal what f.parent.init returned,  *)
(* v the reflect.Value derefPtrAndInit works on, news the (cell, target)   *)
(* pairs the thread has set.                                               *)
(***************************************************************************)
RaceThread(id) ==
    [pc |-> "start", id |-> id, stk |-> <<>>, pVal |-> ZeroValue,
     v |-> [ptr |-> Nil, at |-> 0, typ |-> <<>>], numPtr |-> 0,
     val |-> ZeroValue, stored |-> {}, view |-> zero, news |-> {}]

\* the ids of the fields of shape s that lie behind a pointer
BehindPointer(s) ==
    {id \in 0..(Len(s.fields) - 1) :
        \E i \in 1..Len(s.fields) :
           /\ s.fields[i].ptrNum > 0
           /\ \/ i = id + 1
              \/ Below(s.fields[i].selector, s.fields[id + 1].selector)}

InitRace ==
    /\ opts = Options(MaxDeepBound, NoFn, NoFn)
    /\ rw = unlocked
    /\ mem = InitMem
    /\ ret = NoRet
    /\ \E i \in 1..Len(RootTypes) :
       \E arg \in {StructPtr(RootTypes[i])} :
       \E a \in {loadOrBuild(opts, <<>>, <<>>, RuntimeTypeID(arg.typ), arg)} :
          /\ dict = a.dict
          /\ heap = a.heap
          /\ structs = <<newStruct(a.sTyp, arg.ptr, a.heap)>>
          /\ \E id \in BehindPointer(a.heap[a.sTyp]) :
                calls = <<RaceThread(id), RaceThread(id)>>

\* what the pointer value v points to: held in the value itself when it came from
\* reflect.NewAt, read from the cell the value lives in otherwise
Target(v, m) == IF v.at = 0 THEN v.ptr ELSE m[v.at]

\* ptr := pVal.elemPtr + f.Offset without the offset
FieldCell_NoOffset(pVal, f) == pVal.elemPtr

\* ptr := pVal.elemPtr + f.Offset
FieldCell(pVal, f) == pVal.elemPtr + f.Offset

\* FieldValue: v := s.fieldValues[id]; a filled slot is returned, else init is called
RaceFieldValue(t) ==
    /\ calls[t].pc = "start"
    /\ \E slot \in {structs[1].fieldValues[calls[t].id + 1]} :
          calls' = [calls EXCEPT ![t] =
                       IF slot.elemPtr > 0
                       THEN [@ EXCEPT !.pc = "write", !.view = slot.elemVal]
                       ELSE [@ EXCEPT !.pc = "init", !.stk = <<calls[t].id>>]]
    /\ UNCHANGED <<opts, dict, rw, heap, mem, structs, ret>>

\* the head of init: the root returns s.value, a filled slot is returned, and
\* otherwise f.parent.init(s) is called
RaceInit(t) ==
    /\ calls[t].pc = "init"
    /\ \E f \in {Head(calls[t].stk)} :
          calls' = [calls EXCEPT ![t] =
                       IF f = TreeRef
                       THEN [@ EXCEPT !.pc = "return", !.val = structs[1].value]
                       ELSE IF structs[1].fieldValues[FieldAt(ShapeOf(1), f).id + 1].elemPtr > 0
                            THEN [@ EXCEPT !.pc = "return",
                                           !.val = structs[1].fieldValues[
                                                      FieldAt(ShapeOf(1), f).id + 1]]
                            ELSE [@ EXCEPT !.stk = <<FieldAt(ShapeOf(1), f).parent>> \o @]]
    /\ UNCHANGED <<opts, dict, rw, heap, mem, structs, ret>>

\* a call of init returns val: to FieldValue, which returns its elemVal, or to the
\* init that called it, which goes on with pVal
RaceReturn(t) ==
    /\ calls[t].pc = "return"
    /\ calls' = [calls EXCEPT ![t] =
                    IF Len(calls[t].stk) = 1
                    THEN [@ EXCEPT !.pc = "write", !.stk = <<>>, !.view = calls[t].val.elemVal]
                    ELSE [@ EXCEPT !.pc = "body", !.stk = Tail(@), !.pVal = calls[t].val]]
    /\ UNCHANGED <<opts, dict, rw, heap, mem, structs, ret>>

\* valPtr := reflect.NewAt(f.StructField.Type, ptr), and the call of derefPtrAndInit
RaceBody(t) ==
    /\ calls[t].pc = "body"
    /\ \E f \in {FieldAt(ShapeOf(1), Head(calls[t].stk))} :
          calls' = [calls EXCEPT ![t].v = NewAt(f.Type, FieldCell(calls[t].pVal, f)),
                                 ![t].numPtr = f.ptrNum,
                                 ![t].pc = IF f.ptrNum > 0 THEN "isnil" ELSE "elem"]
    /\ UNCHANGED <<opts, dict, rw, heap, mem, structs, ret>>

\* v.IsNil(), in the loop of derefPtrAndInit (numPtr > 0) and after it
RaceIsNil(t) ==
    /\ calls[t].pc = "isnil"
    /\ calls' = [calls EXCEPT ![t].pc =
                    IF Target(calls[t].v, mem) = Nil THEN "set"
                    ELSE IF calls[t].numPtr > 0 THEN "deref" ELSE "elem"]
    /\ UNCHANGED <<opts, dict, rw, heap, mem, structs, ret>>

\* v.Set(reflect.New(v.Type().Elem()))
RaceSet(t) ==
    /\ calls[t].pc = "set"
    /\ mem' = SetNew(calls[t].v, mem).m
    /\ calls' = [calls EXCEPT ![t].news = @ \cup {[cell |-> calls[t].v.at, target |-> Len(mem) + 1]},
                              ![t].pc = IF calls[t].numPtr > 0 THEN "deref" ELSE "elem"]
    /\ UNCHANGED <<opts, dict, rw, heap, structs, ret>>

\* v = v.Elem() in the loop: the value that lives where v points to
RaceDeref(t) ==
    /\ calls[t].pc = "deref"
    /\ calls' = [calls EXCEPT ![t].v = [ptr |-> Nil, at |-> Target(calls[t].v, mem),
                                        typ |-> Elem(calls[t].v.typ)],
                              ![t].numPtr = @ - 1,
                              ![t].pc = "isnil"]
    /\ UNCHANGED <<opts, dict, rw, heap, mem, structs, ret>>

\* elemVal: valPtr.Elem()
RaceElem(t) ==
    /\ calls[t].pc = "elem"
    /\ calls' = [calls EXCEPT ![t].val.elemVal =
                                 IF Target(calls[t].v, mem) = Nil THEN zero
                                 ELSE [addr |-> Target(calls[t].v, mem),
                                       typ |-> Elem(calls[t].v.typ)],
                              ![t].pc = "pointer"]
    /\ UNCHANGED <<opts, dict, rw, heap, mem, structs, ret>>

\* elemPtr: valPtr.Pointer()
RacePointer(t) ==
    /\ calls[t].pc = "pointer"
    /\ calls' = [calls EXCEPT ![t].val.elemPtr = Target(calls[t].v, mem),
                              ![t].stored = {},
                              ![t].pc = "store"]
    /\ UNCHANGED <<opts, dict, rw, heap, mem, structs, ret>>

\* s.fieldValues[f.id] = v: one of the two parts of the slot is written
RaceStore(t) ==
    /\ calls[t].pc = "store"
    /\ \E part \in {"elemVal", "elemPtr"} \ calls[t].stored :
       \E slot \in {FieldAt(ShapeOf(1), Head(calls[t].stk)).id + 1} :
          /\ structs' = [structs EXCEPT ![1].fieldValues[slot] =
                            IF part = "elemVal"
                            THEN [@ EXCEPT !.elemVal = calls[t].val.elemVal]
                            ELSE [@ EXCEPT !.elemPtr = calls[t].val.elemPtr]]
          /\ calls' = [calls EXCEPT ![t].stored = @ \cup {part},
                                    ![t].pc = IF calls[t].stored = {} THEN "store"
                                              ELSE "return"]
    /\ UNCHANGED <<opts, dict, rw, heap, mem, ret>>

\* the thread sets the value it was given, or the first member of the record it was
\* given, to a number of its own; a set through the zero Value panics
RaceWrite(t) ==
    /\ calls[t].pc = "write"
    /\ IF calls[t].view = zero
       THEN /\ calls' = [calls EXCEPT ![t].pc = "panic"]
            /\ UNCHANGED mem
       ELSE /\ mem' = [mem EXCEPT ![calls[t].view.addr] = 10 + t]
            /\ calls' = [calls EXCEPT ![t].pc = "done"]
    /\ UNCHANGED <<opts, dict, rw, heap, structs, ret>>

RaceStepFieldValue == \E t \in Threads : RaceFieldValue(t)
RaceStepInit == \E t \in Threads : RaceInit(t)
RaceStepReturn == \E t \in Threads : RaceReturn(t)
RaceStepBody == \E t \in Threads : RaceBody(t)
RaceStepIsNil == \E t \in Threads : RaceIsNil(t)
RaceStepSet == \E t \in Threads : RaceSet(t)
RaceStepDeref == \E t \in Threads : RaceDeref(t)
RaceStepElem == \E t \in Threads : RaceElem(t)
RaceStepPointer == \E t \in Threads : RacePointer(t)
RaceStepStore == \E t \in Threads : RaceStore(t)
RaceStepWrite == \E t \in Threads : RaceWrite(t)

NextRace ==
    \/ RaceStepFieldValue
    \/ RaceStepInit
    \/ RaceStepReturn
    \/ RaceStepBody
    \/ RaceStepIsNil
    \/ RaceStepSet
    \/ RaceStepDeref
    \/ RaceStepElem
    \/ RaceStepPointer
    \/ RaceStepStore
    \/ RaceStepWrite

SpecRace == InitRace /\ [][NextRace]_vars

\* the address the program reaches from the root pointer for the field the two
\* threads asked for
ThroughRoot == GoAddr(mem, RootOf(1), RootType(1), NamesOf(1, calls[1].id))

\* thread t has written through its view, and the place it wrote to is not the one
\* the root pointer leads to
Lost(t) == calls[t].pc = "done" /\ calls[t].view.addr # ThroughRoot

\* the number thread t wrote is what a reader that starts from the root pointer reads
Observable(t) == ThroughRoot \in DOMAIN mem /\ mem[ThroughRoot] = 10 + t

\* the two threads have each set a target of their own for the same pointer
BothAllocated ==
    \E x \in calls[1].news : \E y \in calls[2].news : x.cell = y.cell /\ x.target # y.target

\* C19: two threads that share an accessor and resolve the same field behind a nil
\* pointer for the first time race: a thread's write through the view it got is
\* lost to a reader that starts from the root pointer only when both threads have
\* allocated a target for the same nil pointer, a thread that has the accessor to
\* itself loses nothing, and a view is the zero Value only when the other thread
\* was at work on the accessor.
C19_LostWriteOnlyByRace ==
    \A t \in Threads : \E u \in Threads \ {t} :
       /\ Lost(t) => BothAllocated
       /\ calls[t].pc = "panic" => calls[u].pc # "start"
       /\ (calls[t].pc = "done" /\ calls[u].pc = "start") =>
             /\ calls[t].view.addr = ThroughRoot
             /\ Observable(t)
       /\ calls[t].pc = "done" => calls[t].view.addr \in DOMAIN mem

\* both threads have allocated a target for the same nil pointer and have returned
\* and written, and the number one of them wrote is not what is read through the
\* root pointer
C19_Witness ==
    /\ BothAllocated
    /\ \A t \in Threads : calls[t].pc = "done"
    /\ \E t \in Threads : Lost(t) /\ ~Observable(t)

(***************************************************************************)
(* SpecConcFair: SpecConc under a fair scheduler.  A caller that is inside *)
(* a call keeps being scheduled: whenever its next step stays possible it  *)
(* is taken.  Nothing obliges a caller to make a further call.             *)
(***************************************************************************)
ConcThreads == 1..2

\* the next step of the call that caller t is in
ThreadStep(t) ==
    \/ Parse(t)
    \/ RLock(t)
    \/ Read(t)
    \/ RUnlock(t)
    \/ Build(t)
    \/ Lock(t)
    \/ Store(t)
    \/ Unlock(t)
    \/ Finish(t)

SpecConcFair == SpecConc /\ \A t \in ConcThreads : WF_vars(ThreadStep(t))

\* caller t is between RLock and RUnlock, or between Lock and Unlock
InRead(t) == calls[t].pc \in {"read", "RUnlock"}
InWrite(t) == calls[t].pc \in {"write", "Unlock"}

\* the lock is held by exactly the callers that are inside load's or store's critical
\* section: not by one that is parsing, building, about to return or between calls
LockFollowsSections ==
    /\ rw.readers = {t \in ConcThreads : InRead(t)}
    /\ rw.writer = {t \in ConcThreads : InWrite(t)}

\* a caller inside store's critical section is alone in the cache
WriterAlone ==
    \A t \in ConcThreads : InWrite(t) =>
       \A u \in ConcThreads \ {t} : ~InWrite(u) /\ ~InRead(u)

\* C20: the cache is used under a multiple-reader/single-writer discipline: no
\* insertion overlaps a read or another insertion; the lock is held only between
\* RLock and RUnlock and between Lock and Unlock, so not while a shape is built and
\* not when a call returns; and under fair scheduling every call that was made
\* returns.
C20_LockDisciplineAndProgress ==
    /\ [](LockFollowsSections /\ WriterAlone)
    /\ \A t \in ConcThreads : (calls[t].pc # "idle") ~> (calls[t].pc = "idle")

\* one caller is about to insert into the cache while the other waits for the lock
\* with a shape of the same type it has built
C20_Witness ==
    \E t \in ConcThreads : \E u \in ConcThreads \ {t} :
       /\ calls[t].pc = "write"
       /\ calls[u].pc = "Lock"
       /\ ~ENABLED Lock(u)

\* the ids of field id of accessor a and of the fields it lies in
OnPath(a, id) ==
    {i \in 0..(NumFields(ShapeOf(a)) - 1) :
        \/ i = id
        \/ Below(ShapeOf(a).fields[i + 1].selector, ShapeOf(a).fields[id + 1].selector)}

\* C21: resolving a field with FieldValue or Field changes only what lies on the
\* field's own path.  In the instance a cell that existed is written only if it is
\* a pointer on the path from the root to the field and was nil, and every cell
\* allocated is zero unless it is such a pointer; in the accessor only empty slots
\* of the field and of the fields it lies in are filled, and the other accessors
\* are left alone; an id out of range changes nothing; and no accessor operation
\* changes a shape or the cache of shapes.
C21_ResolveTouchesOwnPath ==
    [][ /\ ret' # ret => heap' = heap /\ dict' = dict
        /\ (Performed /\ ret'.op \in {"FieldValue", "Field"}) =>
              \E a \in {ret'.acc} : \E id \in {ret'.id} :
                 IF ~checkID(ShapeOf(a), id)
                 THEN mem' = mem /\ structs' = structs
                 ELSE /\ Len(mem') >= Len(mem)
                      /\ \A c \in 1..Len(mem') :
                            (IF c <= Len(mem) THEN mem'[c] # mem[c] ELSE mem'[c] # 0) =>
                               /\ c <= Len(mem) => mem[c] = Nil
                               /\ \E p \in PathPtrs(mem', RootOf(a), RootType(a),
                                                    NamesOf(a, id)) : p.at = c
                      /\ \A b \in 1..Len(structs) : b # a => structs'[b] = structs[b]
                      /\ structs'[a].typ = structs[a].typ
                      /\ structs'[a].value = structs[a].value
                      /\ \A i \in 0..(NumFields(ShapeOf(a)) - 1) :
                            structs'[a].fieldValues[i + 1] # structs[a].fieldValues[i + 1] =>
                               /\ ~Filled(a, i)
                               /\ i \in OnPath(a, id)
    ]_vars

\* FieldValue or Field has resolved a field for the first time and allocated two
\* targets or more on the way; a slot off the field's path is still empty and a
\* pointer off the path still nil
C21_Witness ==
    /\ ret # NoRet
    /\ ret.op \in {"FieldValue", "Field"}
    /\ checkID(ShapeOf(ret.acc), ret.id)
    /\ ~ret.hit
    /\ ret.allocs >= 2
    /\ \E i \in 0..(NumFields(ShapeOf(ret.acc)) - 1) :
          i \notin OnPath(ret.acc, ret.id) /\ ~Filled(ret.acc, i)
    /\ \E p \in Pointers(mem, RootOf(ret.acc), RootType(ret.acc)) :
          /\ mem[p.at] = Nil
          /\ p \notin PathPtrs(mem, RootOf(ret.acc), RootType(ret.acc),
                               NamesOf(ret.acc, ret.id))

\* the view that FieldValue(id) of accessor b returns when it is called right after
\* FieldValue(id) of accessor a, from the present state
SecondView(a, b, id) ==
    CHOOSE r \in { [first |-> x.val, second |-> y.val, m1 |-> x.m, m2 |-> y.m] :
                   x \in {FieldValue(ShapeOf(a), structs[a], id, mem)},
                   y \in {FieldValue(ShapeOf(b), structs[b], id,
                                     FieldValue(ShapeOf(a), structs[a], id, mem).m)} } : TRUE

\* C22: two accessors bound to the same instance agree whatever the order in which
\* they are used.  A slot filled in both holds the same address; from any state,
\* FieldValue(id) through one accessor and then through the other gives the same
\* view, at the address the root pointer leads to, and the second call allocates
\* nothing; no step replaces a pointer that is set; and the value written through
\* a view of one accessor is the value read through the other accessor's view.
C22_AccessorsAgree ==
    [][ /\ \A a \in 1..Len(structs) : \A b \in 1..Len(structs) \ {a} :
           /\ RootOf(a) = RootOf(b)
           /\ \A id \in 0..(NumFields(ShapeOf(a)) - 1) :
                 /\ (Filled(a, id) /\ Filled(b, id)) =>
                       structs[a].fieldValues[id + 1] = structs[b].fieldValues[id + 1]
                 /\ \E r \in {SecondView(a, b, id)} :
                       /\ r.second = r.first
                       /\ r.m2 = r.m1
                       /\ r.first.addr = GoAddr(r.m1, RootOf(a), RootType(a), NamesOf(a, id))
           /\ (ret # NoRet /\ ret.op = "Write" /\ ret.acc = a) =>
                 \E r \in {FieldValue(ShapeOf(b), structs[b], ret.id, mem)} :
                    /\ r.val = ret.val
                    /\ r.m = mem
                    /\ r.m[r.val.addr] = ret.id + 1
        /\ \A a \in 1..Len(structs) :
              \A p \in Pointers(mem, RootOf(a), RootType(a)) :
                 mem[p.at] # Nil => mem'[p.at] = mem[p.at]
    ]_vars

\* two accessors are bound to the instance and both have been used: a number was
\* written through a view that the second operation resolved behind a pointer it
\* had to allocate, and the other accessor, used before, has not resolved that field
C22_Witness ==
    /\ Len(structs) = 2
    /\ ret # NoRet
    /\ ret.op = "Write"
    /\ ret.n = 2
    /\ ret.allocs >= 1
    /\ \E b \in 1..2 :
          /\ b # ret.acc
          /\ ~Filled(b, ret.id)
          /\ \E i \in 0..(NumFields(ShapeOf(b)) - 1) : Filled(b, i)

====
